---- MODULE Spec2Model ----
(***************************************************************************)
(* State-machine model of app/services/strava_service.py (StravaService): *)
(* the authenticated transport (_get_headers, _ensure_valid_token,        *)
(* _make_request, _refresh_access_token, _save_tokens) and the activity   *)
(* aggregation get_activities with its gear enrichment.                   *)
(*                                                                         *)
(* One step of the model is the code that runs between two awaits on      *)
(* network I/O: a step ends when an HTTP request has been sent, and the   *)
(* next step starts with the response the environment gives.              *)
(***************************************************************************)
EXTENDS Integers, Sequences, FiniteSets, TLC

(***************************************************************************)
(* Bounds of the model.                                                    *)
(***************************************************************************)
\* environment failures (non-2xx, network error, bad or short-lived token
\* response, failed save) in one run of a single _make_request call
MaxFaults == 2
\* environment failures in one run of a get_activities call
MaxListFaults == 1
\* number of activities of a hand-enumerated backend
MaxRows == 2
\* operations one service instance runs one after the other
MaxCalls == 2
\* environment failures over the operations of one service instance
MaxServiceFaults == 1
\* environment failures over a sequence of download_gpx calls
MaxGpxFaults == 1
\* position samples of an activity
MaxPoints == 2
\* activities of a list the statistics are made of
MaxStatsRows == 3
\* failures the environment may inject while two tasks interleave
MaxRaceFaults == 1
\* a float holds m * 2^e exactly for m below this (2^53 in the program)
MaxMantissa == 1024

(***************************************************************************)
(* Program constants.                                                      *)
(***************************************************************************)
\* _ensure_valid_token: "expires_at < time.time() + 3600"
RefreshMargin == 3600
\* get_activities: per_page of the all_pages loop and its short-page test
MaxPerPage == 200
\* ActivityFilter.per_page default
DefaultPerPage == 30

VARIABLES
    \* StravaService fields
    access_token, refresh_token, expires_at, gear_cache,
    \* the settings object's token triple and the token file on disk
    settings_tokens, token_file,
    \* environment: wall clock, remaining failure budget, and what upstream
    \* holds: the activity list, the gear names, the streams of each activity
    now, faults, backend, gear_names, streams,
    \* the track files on disk, by path
    gpx_files,
    \* the _make_request call in flight: position, endpoint, params, the
    \* Authorization header's token, its outcome, and what went over the wire
    rpc, rkind, rparams, rhdr, rres, rlog, rbodies,
    \* the service operation in flight: position, arguments, locals, outcome
    pc, args, loc, outcome, pageReqs, gearReqs,
    \* history: the gear cache when the operation in flight started, and the
    \* operations that are over, in order
    cache0, oplog,
    \* the other task of the event loop, suspended at an await: its request
    \* and its operation
    suspended,
    \* the Telegram bot (BotService): its state dictionary, the state file,
    \* the jobs of its scheduler, and the messages of the handler that ran last
    bot

tokenVars == <<access_token, refresh_token, expires_at, settings_tokens, token_file>>
envVars   == <<backend, gear_names, streams, gpx_files, suspended, bot>>
opVars    == <<pc, args, loc, outcome, pageReqs, gearReqs, cache0, oplog>>
vars == <<access_token, refresh_token, expires_at, gear_cache, settings_tokens,
          token_file, now, faults, backend, gear_names, streams, gpx_files,
          rpc, rkind, rparams, rhdr, rres, rlog, rbodies,
          pc, args, loc, outcome, pageReqs, gearReqs, cache0, oplog, suspended, bot>>

\* Python's None for a string; an optional value of another type is the empty
\* tuple (None) or the one-element tuple of the value
None == "None"
Nothing == <<>>
Some(x) == <<x>>
IsSome(o) == o # <<>>
Val(o) == o[1]

(***************************************************************************)
(* Value sets of the environment.                                          *)
(***************************************************************************)
\* the wall clock read by time.time(); it only moves forward
ClockValues == {10000, 10030}
\* expires_at values: unset, fresh at 10000 but inside the margin at 10030,
\* and fresh throughout
ExpiryValues == {0, 13620, 20000}
IssuedAccessTokens == {"a1", "a2"}
IssuedRefreshTokens == {"r1"}
SaveOutcomes == {"ok", "mkdir_fail", "open_fail", "write_fail"}
TokenKeys == {"access_token", "refresh_token", "expires_at"}

\* what the token endpoint can answer to the refresh POST
TokenResponses ==
    [kind : {"ok"}, a : IssuedAccessTokens, r : IssuedRefreshTokens,
     e : ExpiryValues, missing : {None}, save : SaveOutcomes]
    \cup
    [kind : {"malformed"}, a : {"a2"}, r : {"r1"}, e : {20000},
     missing : TokenKeys, save : {"ok"}]
    \cup
    [kind : {"status", "network"}, a : {"a2"}, r : {"r1"}, e : {20000},
     missing : {None}, save : {"ok"}]

\* what an answer of the token endpoint costs of the failure budget: nothing
\* when it is a full triple that expires well ahead and is saved, one otherwise
TokenFault(o) == IF o.kind = "ok" /\ o.save = "ok" /\ o.e = 20000 THEN 0 ELSE 1

NoFile == [st |-> "absent", a |-> "", r |-> "", e |-> 0]

Ev(e, v) == [ev |-> e, v |-> v]

RECURSIVE CountEv(_, _)
CountEv(log, e) ==
    IF log = <<>> THEN 0
    ELSE (IF Head(log).ev = e THEN 1 ELSE 0) + CountEv(Tail(log), e)

\* the values v of the events e of a log, in order
RECURSIVE ValuesOf(_, _)
ValuesOf(log, e) ==
    IF log = <<>> THEN <<>>
    ELSE (IF Head(log).ev = e THEN <<Head(log).v>> ELSE <<>>) \o ValuesOf(Tail(log), e)

(***************************************************************************)
(* _save_tokens                                                            *)
(***************************************************************************)
\* a _save_tokens that leaves the token file alone
SaveTokensFileSkipped(file, a, r, e, save) == file

\* the token file after _save_tokens with the given outcome of the file
\* system, the triple (a, r, e) being the service's fields
SaveTokensFile(file, a, r, e, save) ==
    CASE save = "ok"         -> [st |-> "ok", a |-> a, r |-> r, e |-> e]
      [] save = "write_fail" -> [st |-> "truncated", a |-> "", r |-> "", e |-> 0]
      [] OTHER               -> file

\* os.makedirs is outside the try block: its error leaves _save_tokens
SaveTokensRaises(save) == save = "mkdir_fail"

(***************************************************************************)
(* _refresh_access_token, from the token endpoint's answer o on.           *)
(* ret is "True", "False", or "OSError" when the exception of _save_tokens *)
(* leaves the function.                                                    *)
(***************************************************************************)
\* a refresh that reports success whatever the token endpoint answered
RefreshRetAlwaysTrue(o) == "True"

\* the return value, or the escaping exception (lines 161-165)
RefreshRet(o) ==
    CASE o.kind = "ok" /\ SaveTokensRaises(o.save) -> "OSError"
      [] o.kind = "ok" -> "True"
      [] OTHER -> "False"

RefreshApply(o) ==
    LET cur == [a |-> access_token, r |-> refresh_token, e |-> expires_at,
                sett |-> settings_tokens, file |-> token_file]
    IN  CASE o.kind = "ok" ->
               [a |-> o.a, r |-> o.r, e |-> o.e,
                sett |-> [a |-> o.a, r |-> o.r, e |-> o.e],
                file |-> SaveTokensFile(token_file, o.a, o.r, o.e, o.save),
                ret |-> RefreshRet(o)]
          [] o.kind = "malformed" /\ o.missing = "access_token" ->
               cur @@ [ret |-> RefreshRet(o)]
          [] o.kind = "malformed" /\ o.missing = "refresh_token" ->
               [cur EXCEPT !.a = o.a] @@ [ret |-> RefreshRet(o)]
          [] o.kind = "malformed" /\ o.missing = "expires_at" ->
               [cur EXCEPT !.a = o.a, !.r = o.r] @@ [ret |-> RefreshRet(o)]
          [] OTHER ->
               cur @@ [ret |-> RefreshRet(o)]

\* the events of one answered refresh: the answer, the access token taken from
\* it (line 151) and the _save_tokens call (line 161)
RefreshEvents(o) ==
    <<Ev("tresp", o.kind)>>
    \o (IF o.kind = "ok" \/ (o.kind = "malformed" /\ o.missing # "access_token")
        THEN <<Ev("newtok", o.a)>> ELSE <<>>)
    \o (IF o.kind = "ok" THEN <<Ev("save", o.save)>> ELSE <<>>)

(***************************************************************************)
(* _ensure_valid_token                                                     *)
(***************************************************************************)
\* a test without the margin of an hour
NeedsRefreshNoMargin(a, e, t) == a = "" \/ e = 0 \/ e < t

\* "not self.access_token or not self.expires_at or self.expires_at <
\* time.time() + 3600" (line 70)
NeedsRefresh(a, e, t) == a = "" \/ e = 0 \/ e < t + RefreshMargin

(***************************************************************************)
(* Results of _make_request                                                *)
(***************************************************************************)
Returned(body) == [kind |-> "data", data |-> body]
Raised(exc)    == [kind |-> exc, data |-> <<>>]

\* the request leaves through return or raise
Finish(res) ==
    /\ rpc' = "finished"
    /\ rres' = res
    /\ rhdr' = ""

\* the retry sent with the headers of the first attempt
StaleHeaderToken(a) == IF rhdr # "" THEN rhdr ELSE a

\* the Authorization header _get_headers builds (lines 81-84)
HeaderToken(a) == a

\* _get_headers after _ensure_valid_token, then client.request: the request
\* goes out with the current access token, or StravaAPIError without one
SendOrRaise(a, log, sentPc) ==
    IF a = ""
    THEN /\ Finish(Raised("StravaAPIError"))
         /\ rlog' = log
    ELSE /\ rpc' = sentPc
         /\ rhdr' = HeaderToken(a)
         /\ rlog' = log \o <<Ev("api", HeaderToken(a))>>
         /\ UNCHANGED rres

\* _get_headers with the service holding the tokens (a, r, e):
\* _ensure_valid_token reads the clock and either awaits the token endpoint
\* (refreshPc) or, with nothing to refresh or no refresh token to do it with,
\* goes on to send the request (sentPc)
GetHeaders(a, r, e, log, refreshPc, sentPc) ==
    \E t \in {c \in ClockValues : c >= now} :
        /\ now' = t
        /\ IF NeedsRefresh(a, e, t) /\ r # ""
           THEN /\ rpc' = refreshPc
                /\ rlog' = log \o <<Ev("token", "ensure")>>
                /\ UNCHANGED <<rhdr, rres>>
           ELSE SendOrRaise(a, log, sentPc)

\* entry of _make_request(method, endpoint, params)
MakeRequest(kind, params) ==
    /\ rkind' = kind
    /\ rparams' = params
    /\ rbodies' = <<>>
    /\ GetHeaders(access_token, refresh_token, expires_at, <<>>, "preRefresh", "sent1")
    /\ UNCHANGED <<tokenVars, faults>>

SetTokens(n) ==
    /\ access_token' = n.a
    /\ refresh_token' = n.r
    /\ expires_at' = n.e
    /\ settings_tokens' = n.sett
    /\ token_file' = n.file

\* the token endpoint answers the refresh that _ensure_valid_token awaits
\* (before the first attempt, or before the retry); its result is ignored
EnsureRefreshResponse(o) ==
    /\ rpc \in {"preRefresh", "reRefresh"}
    /\ faults >= TokenFault(o)
    /\ faults' = faults - TokenFault(o)
    /\ LET n == RefreshApply(o)
           log == rlog \o RefreshEvents(o)
       IN  /\ SetTokens(n)
           /\ IF n.ret = "OSError"
              THEN Finish(Raised("OSError")) /\ rlog' = log
              ELSE SendOrRaise(n.a, log, IF rpc = "preRefresh" THEN "sent1" ELSE "sent2")
    /\ UNCHANGED <<now, rkind, rparams, rbodies, gear_cache, envVars, opVars>>

(***************************************************************************)
(* The API's answer to the request on the wire.                            *)
(***************************************************************************)
ApiStatuses == {"ok", "401", "500", "network"}
AthleteBodies == {<<"athlete_v1">>, <<"athlete_v2">>}

Min(a, b) == IF a < b THEN a ELSE b

\* the rows the activity list serves for page and per_page (30 per page, from
\* page 1, when the query names neither); backend is the list upstream holds
\* for the query, in the order upstream serves it
PageSlice(rows, params) ==
    LET page == IF IsSome(params.page) THEN Val(params.page) ELSE 1
        per  == IF IsSome(params.per_page) THEN Val(params.per_page) ELSE DefaultPerPage
    IN  SubSeq(rows, (page - 1) * per + 1, Min(page * per, Len(rows)))

\* display names upstream holds for the gear ids
GearIds == {"g1", "g2"}
GearNames0 == [g \in GearIds |-> IF g = "g1" THEN "Pegasus" ELSE "Roadster"]
UpstreamGearName(g) == gear_names[g]

\* the activities upstream serves by id: display name (a sequence of
\* characters) and start date; the two names differ by one character and
\* make the same file name
ActivityIds == {1, 2}
UpstreamActivity(id) ==
    [id |-> id,
     name |-> IF id = 1 THEN <<"a", " ", "b">> ELSE <<"a", "_", "b">>,
     start |-> 1000 * id]

\* the JSON body of a 2xx answer to the endpoint asked
OkBodies ==
    CASE rkind = "athlete" -> AthleteBodies
      [] rkind = "activities" -> {PageSlice(backend, rparams)}
      [] rkind = "gear" -> {<<[id |-> rparams.gear, name |-> UpstreamGearName(rparams.gear)]>>}
      [] rkind = "activity" -> {<<UpstreamActivity(rparams.id)>>}
      [] rkind = "streams" -> {<<streams[rparams.id]>>}
      [] OTHER -> {<<>>}

\* a first attempt whose network error is not wrapped
FirstAttemptErrorUnwrapped(status) ==
    IF status = "network" THEN "RequestError" ELSE "StravaAPIError"

\* what the API can answer to the request on the wire
ApiAnswers ==
    {[status |-> "ok", body |-> b] : b \in OkBodies}
    \cup {[status |-> st, body |-> <<>>] : st \in ApiStatuses \ {"ok"}}

\* the exception _make_request leaves with when the first attempt fails
\* otherwise than by a 401 (lines 127-130)
FirstAttemptError(status) == "StravaAPIError"

\* the exception of the retried request: raise_for_status and client.request
\* run inside the except block of the first attempt, where no handler of the
\* same try statement applies (lines 115-124)
RetryError(status) == IF status = "network" THEN "RequestError" ELSE "HTTPStatusError"

\* the response.json() a successful attempt returns
ResponseData(bodies) == bodies[Len(bodies)]

\* the response to the first attempt (lines 99-112, 125-130)
FirstResponse(status, body) ==
    /\ rpc = "sent1"
    /\ LET f == IF status = "ok" THEN 0 ELSE 1
           log == rlog \o <<Ev("resp", status)>>
           bodies == rbodies \o <<body>>
       IN  /\ faults >= f
           /\ faults' = faults - f
           /\ rbodies' = bodies
           /\ CASE status = "ok" ->
                     Finish(Returned(ResponseData(bodies))) /\ rlog' = log
                [] status = "401" /\ refresh_token = "" ->
                     Finish(Raised("StravaAPIError")) /\ rlog' = log
                [] status = "401" /\ refresh_token # "" ->
                     /\ rpc' = "refresh401"
                     /\ rlog' = log \o <<Ev("token", "handler")>>
                     /\ UNCHANGED <<rhdr, rres>>
                [] OTHER ->
                     Finish(Raised(FirstAttemptError(status))) /\ rlog' = log
    /\ UNCHANGED <<tokenVars, now, rkind, rparams, gear_cache, envVars, opVars>>

\* the token endpoint answers the refresh of the 401 handler (lines 112-126)
Refresh401Response(o) ==
    /\ rpc = "refresh401"
    /\ faults >= TokenFault(o)
    /\ faults' = faults - TokenFault(o)
    /\ LET n == RefreshApply(o)
           log == rlog \o RefreshEvents(o)
       IN  /\ SetTokens(n)
           /\ CASE n.ret = "OSError" ->
                     Finish(Raised("OSError")) /\ rlog' = log /\ now' = now
                [] n.ret = "False" ->
                     Finish(Raised("StravaAPIError")) /\ rlog' = log /\ now' = now
                [] OTHER ->
                     GetHeaders(n.a, n.r, n.e, log, "reRefresh", "sent2")
    /\ UNCHANGED <<rkind, rparams, rbodies, gear_cache, envVars, opVars>>

\* a retry whose 401 is handled like the first one: refresh and send again
RetryResponseLoop(status, body) ==
    /\ rpc = "sent2"
    /\ LET f == IF status = "ok" THEN 0 ELSE 1
           bodies == rbodies \o <<body>>
       IN  /\ faults >= f
           /\ faults' = faults - f
           /\ rbodies' = bodies
           /\ CASE status = "ok" ->
                     /\ Finish(Returned(ResponseData(bodies)))
                     /\ rlog' = rlog \o <<Ev("resp", status)>>
                [] status = "401" /\ refresh_token # "" ->
                     /\ rpc' = "refresh401"
                     /\ rlog' = rlog \o <<Ev("resp", status), Ev("token", "handler")>>
                     /\ UNCHANGED <<rhdr, rres>>
                [] OTHER ->
                     /\ Finish(Raised(RetryError(status)))
                     /\ rlog' = rlog \o <<Ev("resp", status)>>
    /\ UNCHANGED <<tokenVars, now, rkind, rparams, gear_cache, envVars, opVars>>

\* the response to the retried request (lines 115-124)
RetryResponse(status, body) ==
    /\ rpc = "sent2"
    /\ LET f == IF status = "ok" THEN 0 ELSE 1
           bodies == rbodies \o <<body>>
       IN  /\ faults >= f
           /\ faults' = faults - f
           /\ rbodies' = bodies
           /\ rlog' = rlog \o <<Ev("resp", status)>>
           /\ IF status = "ok"
              THEN Finish(Returned(ResponseData(bodies)))
              ELSE Finish(Raised(RetryError(status)))
    /\ UNCHANGED <<tokenVars, now, rkind, rparams, gear_cache, envVars, opVars>>

(***************************************************************************)
(* get_athlete: one _make_request call (lines 167-170).                    *)
(***************************************************************************)
NoArgs == [op |-> None, filter |-> Nothing, all_pages |-> FALSE, gear |-> None,
           id |-> 0, name |-> Nothing, dir |-> None, limit |-> Nothing]
NoLoc == [data |-> <<>>, page |-> 0, activities |-> <<>>, missing |-> {},
          gear_list |-> <<>>, activity |-> Nothing, activity_name |-> <<>>,
          file_path |-> Nothing]
NoParams == [before |-> Nothing, after |-> Nothing, page |-> Nothing, per_page |-> Nothing,
             gear |-> None, id |-> 0]

\* what is kept of an operation that is over: its name and, of a download_gpx
\* call, the arguments, the result, whether the streams were asked for, the
\* streams received, the derived path and the file at that path when the call
\* ended
OpEntry(op) == [op |-> op, id |-> 0, name |-> Nothing, dir |-> None,
                res |-> Raised(None), fetched |-> FALSE, got |-> Nothing,
                path |-> Nothing, file |-> Nothing]

\* the operations that a handler of the bot starts on its service
BotOps == {"check_command", "scheduled_check"}

\* a service operation starts: nothing else is in flight on this task; a
\* caller other than the bot leaves the bot alone
Start(op, nextPc) ==
    /\ pc = "idle"
    /\ rpc = "idle"
    /\ pc' = nextPc
    /\ cache0' = gear_cache
    /\ UNCHANGED <<gear_cache, backend, gear_names, streams, gpx_files, suspended, outcome,
                   oplog>>
    /\ op \notin BotOps => UNCHANGED bot

\* the operation returns or raises
Complete(res, entry) ==
    /\ pc' = "done"
    /\ outcome' = res
    /\ oplog' = Append(oplog, entry)

\* the request that is over is left behind
RequestTaken ==
    /\ rpc' = "idle"
    /\ UNCHANGED <<tokenVars, now, faults, rkind, rparams, rhdr, rres, rlog, rbodies>>

get_athlete ==
    /\ Start("get_athlete", "athlete")
    /\ MakeRequest("athlete", NoParams)
    /\ UNCHANGED <<args, loc, pageReqs, gearReqs>>

get_athlete_done ==
    /\ pc = "athlete"
    /\ rpc = "finished"
    /\ Complete(rres, OpEntry("get_athlete"))
    /\ RequestTaken
    /\ UNCHANGED <<gear_cache, envVars, args, loc, pageReqs, gearReqs, cache0>>

(***************************************************************************)
(* get_activities (lines 172-245)                                          *)
(***************************************************************************)
\* the local time zone of the process, in seconds ahead of UTC
LocalUtcOffset == 1

\* datetime.timestamp(): an aware datetime is its instant; a naive one is read
\* as local time, off seconds ahead of UTC
Timestamp(d) == IF d.aware THEN d.wall ELSE d.wall - d.off

\* params that always ask for the first page
BuildParamsFirstPage(filter) ==
    IF IsSome(filter)
    THEN [before   |-> Nothing, after |-> Nothing, page |-> Some(1),
          per_page |-> Some(Val(filter).per_page), gear |-> None]
    ELSE NoParams

\* params of the activity list request (lines 178-186)
BuildParams(filter) ==
    IF IsSome(filter)
    THEN LET f == Val(filter)
         IN  [before   |-> IF IsSome(f.before) THEN Some(Timestamp(Val(f.before))) ELSE Nothing,
              after    |-> IF IsSome(f.after) THEN Some(Timestamp(Val(f.after))) ELSE Nothing,
              page     |-> Some(f.page),
              per_page |-> Some(f.per_page),
              gear     |-> None]
    ELSE NoParams

\* params of the all_pages loop for the page asked (lines 193, 196)
PageParams(params, page) == [params EXCEPT !.per_page = Some(MaxPerPage), !.page = Some(page)]

\* Activity(**activity_data): upstream rows carry no gear_name; start_date is
\* aware when the row gives it with a UTC offset, naive otherwise
Activity(row) == [id |-> row.id, start |-> row.start, aware |-> row.aware,
                  gear |-> row.gear, sport |-> row.sport, gear_name |-> None,
                  distance |-> row.distance, moving_time |-> row.moving_time]

\* start_date of an activity as a datetime
StartDate(a) == [wall |-> a.start, aware |-> a.aware, off |-> LocalUtcOffset]

ToActivities(data) == [i \in 1..Len(data) |-> Activity(data[i])]

\* a loop that goes on two pages further
NextPageSkipping(page) == page + 2

\* "current_page += 1" (line 203)
NextPage(page) == page + 1

\* a short-page test that also stops on a full page
ShortPageOrFull(data) == Len(data) <= MaxPerPage

\* the short-page test that ends the all_pages loop (line 201)
ShortPage(data) == Len(data) < MaxPerPage

\* a lookup for every gear id of the activities, cached or not
MissingGearIdsUncached(activities, cache) ==
    {activities[i].gear : i \in {j \in 1..Len(activities) : activities[j].gear # None}}

\* gear ids that need a lookup (lines 309-312)
MissingGearIds(activities, cache) ==
    {activities[i].gear : i \in {j \in 1..Len(activities) :
        activities[j].gear # None /\ activities[j].gear \notin DOMAIN cache}}

\* activities whose gear is not cached get the placeholder "unknown"
ApplyGearNamesPlaceholder(activities, cache) ==
    [i \in 1..Len(activities) |->
        IF activities[i].gear # None
        THEN [activities[i] EXCEPT !.gear_name =
                 IF activities[i].gear \in DOMAIN cache THEN cache[activities[i].gear]
                 ELSE "unknown"]
        ELSE activities[i]]

\* lines 323-326
ApplyGearNames(activities, cache) ==
    [i \in 1..Len(activities) |->
        IF activities[i].gear # None /\ activities[i].gear \in DOMAIN cache
        THEN [activities[i] EXCEPT !.gear_name = cache[activities[i].gear]]
        ELSE activities[i]]

\* "if activity_filter.activity_type", "if activity_filter.gear_id": None and
\* the empty string are both false
Truthy(str) == str \notin {None, ""}

\* lines 216-217
TypeFilter(acts, f) ==
    IF Truthy(f.activity_type)
    THEN SelectSeq(acts, LAMBDA a : a.sport = f.activity_type)
    ELSE acts

\* the gear-presence filter with its branches swapped
HasGearFilterSwapped(acts, f) ==
    IF IsSome(f.has_gear)
    THEN IF Val(f.has_gear)
         THEN SelectSeq(acts, LAMBDA a : a.gear = None)
         ELSE SelectSeq(acts, LAMBDA a : a.gear # None)
    ELSE acts

\* lines 219-223
HasGearFilter(acts, f) ==
    IF IsSome(f.has_gear)
    THEN IF Val(f.has_gear)
         THEN SelectSeq(acts, LAMBDA a : a.gear # None)
         ELSE SelectSeq(acts, LAMBDA a : a.gear = None)
    ELSE acts

\* a gear-id filter that keeps every activity
GearIdFilterIgnored(acts, f) == acts

\* lines 225-226
GearIdFilter(acts, f) ==
    IF Truthy(f.gear_id)
    THEN SelectSeq(acts, LAMBDA a : a.gear = f.gear_id)
    ELSE acts

\* the branch of the after re-check that compares timestamps (line 231): a
\* naive bound and a first activity whose start date is aware
AfterByTimestamp(acts, after) == ~after.aware /\ acts # <<>> /\ acts[1].aware

\* a comparison of datetimes that takes a naive and an aware one as they are
AfterFilterNeverRaises(acts, f) == FALSE

\* "a.start_date > activity_filter.after" (line 237) raises TypeError for an
\* aware and a naive datetime
AfterFilterRaises(acts, f) ==
    /\ IsSome(f.after)
    /\ ~AfterByTimestamp(acts, Val(f.after))
    /\ \E i \in 1..Len(acts) : acts[i].aware # Val(f.after).aware

\* lines 229-237: timestamps on one branch, datetimes on the other (two aware
\* ones by their instants, two naive ones by their wall clock readings)
AfterFilter(acts, f) ==
    IF IsSome(f.after)
    THEN LET after == Val(f.after)
         IN  IF AfterByTimestamp(acts, after)
             THEN LET cutoff == Timestamp(after)
                  IN  SelectSeq(acts, LAMBDA a : Timestamp(StartDate(a)) > cutoff)
             ELSE SelectSeq(acts, LAMBDA a : a.start > after.wall)
    ELSE acts

\* lines 215-226
ApplyPredicates(acts, f) == GearIdFilter(HasGearFilter(TypeFilter(acts, f), f), f)

\* lines 215-237
ApplyFilters(acts, filter) ==
    IF IsSome(filter)
    THEN LET f == Val(filter)
         IN  AfterFilter(ApplyPredicates(acts, f), f)
    ELSE acts

\* the filters end in a TypeError
FiltersRaise(acts, filter) ==
    IsSome(filter) /\ AfterFilterRaises(ApplyPredicates(acts, Val(filter)), Val(filter))

MaxOf(S) == CHOOSE m \in S : \A x \in S : x <= m
MinOf(S) == CHOOSE m \in S : \A x \in S : m <= x

\* a stable sort by start date: the groups of equal start date, latest first,
\* each in the order it had
RECURSIVE StableDescending(_, _)
StableDescending(acts, keys) ==
    IF keys = {} THEN <<>>
    ELSE LET m == MaxOf(keys)
         IN  SelectSeq(acts, LAMBDA a : a.start = m) \o StableDescending(acts, keys \ {m})

\* the same sort without reverse=True
RECURSIVE StableAscending(_, _)
StableAscending(acts, keys) ==
    IF keys = {} THEN <<>>
    ELSE LET m == MinOf(keys)
         IN  SelectSeq(acts, LAMBDA a : a.start = m) \o StableAscending(acts, keys \ {m})

SortAscending(acts) == StableAscending(acts, {acts[i].start : i \in 1..Len(acts)})

\* activities.sort(key=lambda x: x.start_date, reverse=True) (line 243)
SortActivities(acts) == StableDescending(acts, {acts[i].start : i \in 1..Len(acts)})

\* the sort compares the start dates of a list of two or more: TypeError when
\* an aware one meets a naive one
SortRaises(acts) == \E i \in 1..Len(acts) : acts[i].aware # acts[1].aware

\* get_activities returns, or a comparison of datetimes raises (lines 214-245)
ReturnActivities(activities, cache) ==
    \E named \in {ApplyGearNames(activities, cache)} :
        \E kept \in {IF FiltersRaise(named, args.filter) THEN <<>>
                      ELSE ApplyFilters(named, args.filter)} :
            Complete(IF FiltersRaise(named, args.filter) \/ SortRaises(kept)
                     THEN Raised("TypeError")
                     ELSE Returned(SortActivities(kept)),
                     OpEntry("get_activities"))

\* get_gear_by_id(gear_id) is called (lines 252-255, 282, 318); reqs are the
\* lookups of this operation so far, each with its id, whether the id was
\* cached when the lookup was issued, and how it ended
RequestGear(g, reqs, cache) ==
    /\ MakeRequest("gear", [NoParams EXCEPT !.gear = g])
    /\ gearReqs' = Append(reqs, [id |-> g, hit |-> g \in DOMAIN cache, res |-> "pending",
                                 name |-> None])

\* get_gear_by_id from the end of its request on: the Gear of a 2xx answer,
\* None after any exception (lines 254-259)
GetGearById(res) == IF res.kind = "data" THEN Some(res.data[1]) ELSE Nothing

\* a cache that keeps the placeholder "unknown" for a gear id whose lookup
\* failed
CacheGearPlaceholder(cache, g, gear) ==
    IF IsSome(gear) THEN (Val(gear).id :> Val(gear).name) @@ cache
    ELSE (g :> "unknown") @@ cache

\* a cache that drops the entry of a gear id whose lookup failed
CacheGearEvicting(cache, g, gear) ==
    IF IsSome(gear) THEN (Val(gear).id :> Val(gear).name) @@ cache
    ELSE [x \in DOMAIN cache \ {g} |-> cache[x]]

\* "if gear: self._gear_cache[gear.id] = gear.name" for the lookup of g
\* (lines 283-285, 319-320)
CacheGear(cache, g, gear) ==
    IF IsSome(gear) THEN (Val(gear).id :> Val(gear).name) @@ cache ELSE cache

\* the lookups so far, the last one over with the Gear or None it returned
GearAnswered(reqs, gear) ==
    [reqs EXCEPT ![Len(reqs)].res = IF IsSome(gear) THEN "ok" ELSE "failed",
                 ![Len(reqs)].name = IF IsSome(gear) THEN Val(gear).name ELSE None]

\* the loop of _populate_gear_names_for_activities over the ids still to look
\* up, in no particular order, then the rest of get_activities (lines 317-326,
\* 214-245); l is the call's locals
GearLoop(l, missing, cache, reqs) ==
    IF missing # {}
    THEN \E g \in missing :
            /\ pc' = "gear"
            /\ loc' = [l EXCEPT !.missing = missing \ {g}]
            /\ RequestGear(g, reqs, cache)
            /\ UNCHANGED <<outcome, oplog>>
    ELSE /\ loc' = [l EXCEPT !.missing = {}]
         /\ ReturnActivities(l.activities, cache)
         /\ gearReqs' = reqs
         /\ RequestTaken

\* lines 208-212 and 309-315, with all_activities_data complete
AfterFetch(data) ==
    LET activities == ToActivities(data)
        missing == IF activities # <<>> THEN MissingGearIds(activities, gear_cache) ELSE {}
    IN  /\ GearLoop([loc EXCEPT !.data = data, !.activities = activities], missing,
                    gear_cache, gearReqs)
        /\ UNCHANGED <<gear_cache, pageReqs>>

\* a page request that fails ends the call with the rows fetched so far
PageErrorPartial(res, fetched) == Returned(ToActivities(fetched))

\* the exception of a page request leaves get_activities: no handler stands
\* around lines 197 and 205
PageError(res, fetched) == res

\* the activity list is asked for one page (lines 197, 205)
RequestPage(params) ==
    /\ MakeRequest("activities", params)
    /\ pageReqs' = Append(pageReqs, params)

\* the call, up to the first page request on the wire (lines 172-205); op is
\* the operation the caller asked the service or the API for, limit the
\* limit the caller keeps for the list that comes back
CallGetActivitiesLimited(op, filter, all_pages, limit) ==
    /\ Start(op, "paging")
    /\ args' = [NoArgs EXCEPT !.op = op, !.filter = filter, !.all_pages = all_pages,
                              !.limit = limit]
    /\ loc' = [NoLoc EXCEPT !.page = 1]
    /\ gearReqs' = <<>>
    /\ LET params == BuildParams(filter)
           first == IF all_pages THEN PageParams(params, 1) ELSE params
       IN  /\ MakeRequest("activities", first)
           /\ pageReqs' = <<first>>

CallGetActivities(op, filter, all_pages) ==
    CallGetActivitiesLimited(op, filter, all_pages, Nothing)

get_activities(filter, all_pages) == CallGetActivities("get_activities", filter, all_pages)

\* a page request is over (lines 197-206): its error leaves get_activities,
\* its rows are merged and the loop goes on or ends
get_activities_page ==
    /\ pc = "paging"
    /\ rpc = "finished"
    /\ IF rres.kind # "data"
       THEN /\ Complete(PageError(rres, loc.data), OpEntry("get_activities"))
            /\ RequestTaken
            /\ UNCHANGED <<gear_cache, loc, pageReqs, gearReqs>>
       ELSE LET data == rres.data
                merged == loc.data \o data
            IN  IF ~args.all_pages
                THEN AfterFetch(data)
                ELSE IF data = <<>>
                THEN AfterFetch(loc.data)
                ELSE IF ShortPage(data)
                THEN AfterFetch(merged)
                ELSE /\ loc' = [loc EXCEPT !.data = merged, !.page = NextPage(loc.page)]
                     /\ RequestPage(PageParams(rparams, NextPage(loc.page)))
                     /\ UNCHANGED <<gear_cache, pc, outcome, gearReqs, oplog>>
    /\ UNCHANGED <<envVars, args, cache0>>

\* a gear lookup is over (lines 252-259, 318-321): its error is swallowed, its
\* name is cached, and the loop goes on or ends
get_activities_gear ==
    /\ pc = "gear"
    /\ rpc = "finished"
    /\ LET gear == GetGearById(rres)
           cache == CacheGear(gear_cache, rparams.gear, gear)
       IN  /\ gear_cache' = cache
           /\ GearLoop(loc, loc.missing, cache, GearAnswered(gearReqs, gear))
    /\ UNCHANGED <<envVars, args, pageReqs, cache0>>

(***************************************************************************)
(* get_athlete_gear (lines 261-295) and get_gear_by_id as an operation of  *)
(* its own (lines 252-259).                                                *)
(***************************************************************************)
\* the gear ids of the rows of the activity list (lines 272-275)
AthleteGearIds(data) == {data[i].gear : i \in {j \in 1..Len(data) : data[j].gear # None}}

\* the loop over the gear ids still to fetch, in no particular order, then the
\* return of the list (lines 281-289)
AthleteGearLoop(l, ids, cache, reqs) ==
    IF ids # {}
    THEN \E g \in ids :
            /\ pc' = "gearlist_gear"
            /\ loc' = [l EXCEPT !.missing = ids \ {g}]
            /\ RequestGear(g, reqs, cache)
            /\ UNCHANGED <<outcome, oplog>>
    ELSE /\ loc' = [l EXCEPT !.missing = {}]
         /\ Complete(Returned(l.gear_list), OpEntry("get_athlete_gear"))
         /\ gearReqs' = reqs
         /\ RequestTaken

\* the call, up to the activity list request on the wire (lines 261-269)
get_athlete_gear ==
    /\ Start("get_athlete_gear", "gearlist")
    /\ args' = [NoArgs EXCEPT !.op = "get_athlete_gear"]
    /\ loc' = NoLoc
    /\ pageReqs' = <<>>
    /\ gearReqs' = <<>>
    /\ MakeRequest("activities", [NoParams EXCEPT !.per_page = Some(MaxPerPage)])

\* the activity list request is over (lines 269-282): any exception ends the
\* call with an empty list (lines 291-295)
get_athlete_gear_list ==
    /\ pc = "gearlist"
    /\ rpc = "finished"
    /\ IF rres.kind # "data"
       THEN /\ Complete(Returned(<<>>), OpEntry("get_athlete_gear"))
            /\ RequestTaken
            /\ UNCHANGED <<loc, gearReqs>>
       ELSE AthleteGearLoop([loc EXCEPT !.data = rres.data], AthleteGearIds(rres.data),
                            gear_cache, gearReqs)
    /\ UNCHANGED <<gear_cache, envVars, args, pageReqs, cache0>>

\* a gear lookup of the loop is over (lines 282-286)
get_athlete_gear_gear ==
    /\ pc = "gearlist_gear"
    /\ rpc = "finished"
    /\ LET gear == GetGearById(rres)
           cache == CacheGear(gear_cache, rparams.gear, gear)
           l == IF IsSome(gear)
                THEN [loc EXCEPT !.gear_list = Append(@, Val(gear))]
                ELSE loc
       IN  /\ gear_cache' = cache
           /\ AthleteGearLoop(l, loc.missing, cache, GearAnswered(gearReqs, gear))
    /\ UNCHANGED <<envVars, args, pageReqs, cache0>>

get_gear_by_id(g) ==
    /\ Start("get_gear_by_id", "gearbyid")
    /\ args' = [NoArgs EXCEPT !.op = "get_gear_by_id", !.gear = g]
    /\ loc' = NoLoc
    /\ pageReqs' = <<>>
    /\ RequestGear(g, <<>>, gear_cache)

get_gear_by_id_done ==
    /\ pc = "gearbyid"
    /\ rpc = "finished"
    /\ LET gear == GetGearById(rres)
       IN  /\ Complete(Returned(gear), OpEntry("get_gear_by_id"))
           /\ gearReqs' = GearAnswered(gearReqs, gear)
    /\ RequestTaken
    /\ UNCHANGED <<gear_cache, envVars, args, loc, pageReqs, cache0>>

(***************************************************************************)
(* download_gpx (lines 338-442)                                            *)
(***************************************************************************)
\* settings.gpx_storage_path
GpxStoragePath == "./data/gpx"

\* replace(' ', '_').replace('/', '_').replace('\\', '_') (line 352)
SafeChar(c) == IF c \in {" ", "/", "\\"} THEN "_" ELSE c
SafeName(name) == [i \in 1..Len(name) |-> SafeChar(name[i])]

\* a file name that carries the id of the activity of the call
FilePathWithId(save_path, name) ==
    [dir |-> save_path, file |-> SafeName(name) \o <<"_", ToString(args.id), ".gpx">>]

\* os.path.join(save_path, f"{safe_name}.gpx") (lines 353-354)
FilePath(save_path, name) == [dir |-> save_path, file |-> SafeName(name) \o <<".gpx">>]

\* an existence check that never finds the file
FileExistsNever(files, path) == FALSE

\* os.path.exists(file_path) (line 356)
FileExists(files, path) == path \in DOMAIN files

\* the file at a path, if any
FileAt(files, path) ==
    IF IsSome(path) /\ Val(path) \in DOMAIN files THEN Some(files[Val(path)]) ELSE Nothing

\* streams.get(key, {}).get("data", []) (lines 385-388)
StreamData(s, key) == IF key \in DOMAIN s THEN s[key].data ELSE <<>>

\* str(x) of a sample (lines 414, 418)
Str(x) == [str |-> x]

\* a loop that stops at the end of the shortest stream received
PointCountShortest(s) ==
    LET lens == {Len(s[k].data) : k \in DOMAIN s}
    IN  CHOOSE m \in lens : \A x \in lens : m <= x

\* range(len(latlngs)) (lines 384, 392)
PointCount(s) == Len(s["latlng"].data)

\* a timestamp that leaves out the start of the activity
PointTimeElapsed(start_time, times, i) ==
    IF i <= Len(times) THEN Some(times[i]) ELSE Nothing

\* start_time + timedelta(seconds=times[i]), or None past the end of the time
\* stream (lines 396-400); i counts from 1
PointTime(start_time, times, i) ==
    IF i <= Len(times) THEN Some(start_time + times[i]) ELSE Nothing

\* altitudes[i], or None past the end of the altitude stream (line 402)
Elevation(altitudes, i) ==
    IF i <= Len(altitudes) THEN Some(altitudes[i]) ELSE Nothing

\* an extension block only for a point that has both samples
HasExtensionBoth(heartrates, cadences, i) ==
    i <= Len(heartrates) /\ i <= Len(cadences)

\* "if i < len(heartrates) or i < len(cadences)" (line 406)
HasExtension(heartrates, cadences, i) ==
    i <= Len(heartrates) \/ i <= Len(cadences)

\* the TrackPointExtension element of point i: an hr child and a cad child,
\* each under its own length test (lines 411-417)
Extension(heartrates, cadences, i) ==
    [hr  |-> IF i <= Len(heartrates) THEN Some(Str(heartrates[i])) ELSE Nothing,
     cad |-> IF i <= Len(cadences) THEN Some(Str(cadences[i])) ELSE Nothing]

\* the track point of sample i, counted from 1 (lines 393-422)
TrackPoint(s, start_time, i) ==
    LET latlngs    == s["latlng"].data
        times      == StreamData(s, "time")
        altitudes  == StreamData(s, "altitude")
        heartrates == StreamData(s, "heartrate")
        cadences   == StreamData(s, "cadence")
    IN  [latitude  |-> latlngs[i][1],
         longitude |-> latlngs[i][2],
         elevation |-> Elevation(altitudes, i),
         time      |-> PointTime(start_time, times, i),
         extensions |->
             IF HasExtension(heartrates, cadences, i)
             THEN <<Extension(heartrates, cadences, i)>>
             ELSE <<>>]

\* the GPX object: one track, one segment, the points (lines 366-422)
BuildGpx(activity_name, activity_id, s, start_time) ==
    [name |-> activity_name,
     description |-> activity_id,
     tracks |-> <<[segments |->
                     <<[points |-> [i \in 1..PointCount(s) |->
                                       TrackPoint(s, start_time, i)]]>>]>>]

(***************************************************************************)
(* The text of the document (lines 425-437), as a sequence of pieces: a    *)
(* piece of markup, a piece of a name, or a number in digits. A piece is   *)
(* the unit of search and replacement.                                     *)
(***************************************************************************)
TPE_NS == "http://www.garmin.com/xmlschemas/TrackPointExtension/v1"

\* the opening and closing tag of an element with a prefix
TpeTags == {"TrackPointExtension", "hr", "cad"}
OpenTags == [prefix \in {TPE_NS, "gpxtpx"}, tag \in TpeTags |->
                "<" \o prefix \o ":" \o tag \o ">"]
CloseTags == [prefix \in {TPE_NS, "gpxtpx"}, tag \in TpeTags |->
                 "</" \o prefix \o ":" \o tag \o ">"]
Open(prefix, tag) == OpenTags[prefix, tag]
Close(prefix, tag) == CloseTags[prefix, tag]

\* the escaping of text by the serialiser
EscapeChar(c) ==
    CASE c = "&" -> "&amp;" [] c = "<" -> "&lt;" [] c = ">" -> "&gt;" [] OTHER -> c
Escape(name) == [i \in 1..Len(name) |-> EscapeChar(name[i])]

\* a number in digits
Num(x) == ToString(x)

\* an lxml element of the extension namespace, serialised without a prefix
\* for its namespace: the namespace itself stands before the colon
ExtensionXml(e) ==
    <<Open(TPE_NS, "TrackPointExtension")>>
    \o (IF IsSome(e.hr)
        THEN <<Open(TPE_NS, "hr"), Num(Val(e.hr).str), Close(TPE_NS, "hr")>> ELSE <<>>)
    \o (IF IsSome(e.cad)
        THEN <<Open(TPE_NS, "cad"), Num(Val(e.cad).str), Close(TPE_NS, "cad")>> ELSE <<>>)
    \o <<Close(TPE_NS, "TrackPointExtension")>>

PointXml(p) ==
    <<"<trkpt", Num(p.latitude), Num(p.longitude), ">">>
    \o (IF IsSome(p.elevation) THEN <<"<ele>", Num(Val(p.elevation)), "</ele>">> ELSE <<>>)
    \o (IF IsSome(p.time) THEN <<"<time>", Num(Val(p.time)), "</time>">> ELSE <<>>)
    \o (IF p.extensions # <<>>
        THEN <<"<extensions>">> \o ExtensionXml(p.extensions[1]) \o <<"</extensions>">>
        ELSE <<>>)
    \o <<"</trkpt>">>

RECURSIVE PointsXml(_)
PointsXml(points) ==
    IF points = <<>> THEN <<>> ELSE PointXml(Head(points)) \o PointsXml(Tail(points))

\* gpx.to_xml() (line 425): the root element with the namespace of GPX, the
\* name and the description, the track
to_xml(gpx) ==
    <<"<gpx ", "xmlns", "=\"http://www.topografix.com/GPX/1/1\" ", ">",
      "<metadata>", "<name>">> \o Escape(gpx.name)
    \o <<"</name>", "<desc>", "Strava Activity ", Num(gpx.description), "</desc>",
         "</metadata>", "<trk>", "<trkseg>">>
    \o PointsXml(gpx.tracks[1].segments[1].points)
    \o <<"</trkseg>", "</trk>", "</gpx>">>

\* str.replace: every occurrence of a piece, replaced by another
ReplaceTag(xml, old, new) ==
    [i \in 1..Len(xml) |-> IF xml[i] = old THEN new ELSE xml[i]]

\* str.replace: every occurrence of a piece, replaced by pieces
RECURSIVE Replace(_, _, _)
Replace(xml, old, new) ==
    IF \A i \in 1..Len(xml) : xml[i] # old THEN xml
    ELSE LET i == CHOOSE k \in 1..Len(xml) :
                      xml[k] = old /\ \A j \in 1..(k - 1) : xml[j] # old
         IN  SubSeq(xml, 1, i - 1) \o new \o Replace(SubSeq(xml, i + 1, Len(xml)), old, new)

\* "word in gpx_xml": in the markup or in the text of the name
Contains(xml, word) == \E i \in 1..Len(xml) : xml[i] = word

\* '<gpx xmlns:gpxtpx="{TPE_NS}" ' (line 437)
Declaration == <<"<gpx ", "xmlns:gpxtpx", "=\"" \o TPE_NS \o "\" ">>

\* a declaration added whatever the text holds
DeclareAlways(xml) == Replace(xml, "<gpx ", Declaration)

\* the declaration of the prefix, added to the root element unless the text
\* holds "xmlns:gpxtpx" somewhere (lines 436-437)
Declare(xml) ==
    IF ~Contains(xml, "xmlns:gpxtpx")
    THEN Replace(xml, "<gpx ", Declaration)
    ELSE xml

\* one of the six replacements of lines 429-434
Prefixed(xml, mk(_, _), tag) == ReplaceTag(xml, mk(TPE_NS, tag), mk("gpxtpx", tag))

\* the fixes between to_xml and the write (lines 428-437)
FixNamespaces(xml) ==
    LET x1 == Prefixed(xml, Open, "TrackPointExtension")
        x2 == Prefixed(x1, Close, "TrackPointExtension")
        x3 == Prefixed(x2, Open, "hr")
        x4 == Prefixed(x3, Close, "hr")
        x5 == Prefixed(x4, Open, "cad")
        x6 == Prefixed(x5, Close, "cad")
    IN  Declare(x6)

\* open(file_path, "w") and f.write (lines 439-440): the file holds the
\* document, nothing when the write fails after the open, and is not there
\* when the open fails
GpxWriteOutcomes == {"ok", "open_fail", "write_fail"}
WriteGpx(files, path, gpx, w) ==
    CASE w = "ok"         -> (path :> [st |-> "ok", gpx |-> <<gpx>>,
                                       xml |-> FixNamespaces(to_xml(gpx))]) @@ files
      [] w = "write_fail" -> (path :> [st |-> "truncated", gpx |-> <<>>, xml |-> <<>>]) @@ files
      [] OTHER            -> files

\* a no-GPS error raised after the file was opened for writing
FilesOnNoGpsTouched(files, path) == (path :> [st |-> "truncated", gpx |-> <<>>, xml |-> <<>>]) @@ files

\* the files when the no-GPS error is raised (lines 363-364): nothing was
\* opened yet
FilesOnNoGps(files, path) == files

\* what is kept of a download_gpx call that is over
GpxEntry(res, fetched, got, path, files) ==
    [op |-> "download_gpx", id |-> args.id, name |-> args.name, dir |-> args.dir,
     res |-> res, fetched |-> fetched, got |-> got, path |-> path,
     file |-> FileAt(files, path)]

\* the call, up to the activity request on the wire (lines 338-348); the
\* storage directory exists or is made, or the call ends there
download_gpx(activity_id, save_path, activity_name) ==
    /\ pc = "idle"
    /\ rpc = "idle"
    /\ cache0' = gear_cache
    /\ args' = [NoArgs EXCEPT !.op = "download_gpx", !.id = activity_id,
                              !.name = activity_name,
                              !.dir = IF save_path = None THEN GpxStoragePath ELSE save_path]
    /\ loc' = NoLoc
    /\ pageReqs' = <<>>
    /\ gearReqs' = <<>>
    /\ \/ /\ pc' = "gpx_activity"
          /\ MakeRequest("activity", [NoParams EXCEPT !.id = activity_id])
          /\ UNCHANGED <<outcome, oplog>>
       \/ /\ faults >= 1
          /\ faults' = faults - 1
          /\ pc' = "done"
          /\ outcome' = Raised("OSError")
          /\ oplog' = Append(oplog, [OpEntry("download_gpx") EXCEPT
                                        !.id = activity_id, !.name = activity_name,
                                        !.dir = args'.dir, !.res = Raised("OSError")])
          /\ UNCHANGED <<tokenVars, now, rpc, rkind, rparams, rhdr, rres, rlog, rbodies>>
    /\ UNCHANGED <<gear_cache, envVars>>

\* get_activity_by_id is over (lines 348-361): the name, the path, and the
\* file that is already there or the streams request on the wire
download_gpx_activity ==
    /\ pc = "gpx_activity"
    /\ rpc = "finished"
    /\ IF rres.kind # "data"
       THEN /\ Complete(rres, GpxEntry(rres, FALSE, Nothing, Nothing, gpx_files))
            /\ RequestTaken
            /\ UNCHANGED loc
       ELSE LET activity == rres.data[1]
                activity_name == IF IsSome(args.name) /\ Val(args.name) # <<>>
                                 THEN Val(args.name) ELSE activity.name
                file_path == FilePath(args.dir, activity_name)
                l == [loc EXCEPT !.activity = Some(activity),
                                 !.activity_name = activity_name,
                                 !.file_path = Some(file_path)]
            IN  /\ loc' = l
                /\ IF FileExists(gpx_files, file_path)
                   THEN /\ Complete(Returned(file_path),
                                     GpxEntry(Returned(file_path), FALSE, Nothing,
                                              Some(file_path), gpx_files))
                        /\ RequestTaken
                   ELSE /\ pc' = "gpx_streams"
                        /\ MakeRequest("streams", [NoParams EXCEPT !.id = args.id])
                        /\ UNCHANGED <<outcome, oplog>>
    /\ UNCHANGED <<gear_cache, envVars, args, pageReqs, gearReqs, cache0>>

\* get_activity_streams is over (lines 361-442): its error, the no-GPS
\* error, or the track built and written
download_gpx_streams ==
    /\ pc = "gpx_streams"
    /\ rpc = "finished"
    /\ rpc' = "idle"
    /\ LET path == Val(loc.file_path)
       IN  IF rres.kind # "data"
           THEN /\ Complete(rres, GpxEntry(rres, TRUE, Nothing, loc.file_path, gpx_files))
                /\ UNCHANGED <<gpx_files, faults>>
           ELSE LET s == rres.data[1]
                IN  IF "latlng" \notin DOMAIN s
                    THEN LET files == FilesOnNoGps(gpx_files, path)
                         IN  /\ gpx_files' = files
                             /\ Complete(Raised("StravaAPIError"),
                                          GpxEntry(Raised("StravaAPIError"), TRUE, Some(s),
                                                   loc.file_path, files))
                             /\ UNCHANGED faults
                    ELSE \E w \in GpxWriteOutcomes :
                            LET f == IF w = "ok" THEN 0 ELSE 1
                                gpx == BuildGpx(loc.activity_name, args.id, s,
                                                Val(loc.activity).start)
                                files == WriteGpx(gpx_files, path, gpx, w)
                                res == IF w = "ok" THEN Returned(path) ELSE Raised("OSError")
                            IN  /\ faults >= f
                                /\ faults' = faults - f
                                /\ gpx_files' = files
                                /\ Complete(res, GpxEntry(res, TRUE, Some(s),
                                                          loc.file_path, files))
    /\ UNCHANGED <<tokenVars, gear_cache, now, backend, gear_names, streams, rkind, rparams,
                   rhdr, rres, rlog, rbodies, args, loc, pageReqs, gearReqs, cache0,
                   suspended, bot>>

\* a token of the service built anew (lines 33-39, 42-53): the one of the
\* settings, or the one of the token file when the file can be read
LoadedToken(field) ==
    IF token_file.st = "ok" THEN token_file[field] ELSE settings_tokens[field]

\* the process dies and a new one constructs the service (lines 26-40)
Restart ==
    /\ access_token' = LoadedToken("a")
    /\ refresh_token' = LoadedToken("r")
    /\ expires_at' = LoadedToken("e")
    /\ gear_cache' = <<>>
    /\ rpc' = "idle"
    /\ rkind' = None
    /\ rparams' = NoParams
    /\ rhdr' = ""
    /\ rres' = Raised(None)
    /\ rlog' = <<>>
    /\ rbodies' = <<>>
    /\ pc' = "idle"
    /\ args' = NoArgs
    /\ loc' = NoLoc
    /\ outcome' = Raised(None)
    /\ pageReqs' = <<>>
    /\ gearReqs' = <<>>
    /\ cache0' = <<>>

\* a crash that removes the file it was writing
FilesOnCrashRemoved(files, path) == [p \in DOMAIN files \ {path} |-> files[p]]

\* the files when the process dies inside f.write (line 440): open(.., "w")
\* has made the file, part of the document is in it
FilesOnCrash(files, path) == (path :> [st |-> "truncated", gpx |-> <<>>, xml |-> <<>>]) @@ files

\* the process crashes while download_gpx writes the file (lines 439-440),
\* and is started again
crash_during_write ==
    /\ pc = "gpx_streams"
    /\ rpc = "finished"
    /\ rres.kind = "data"
    /\ "latlng" \in DOMAIN rres.data[1]
    /\ faults >= 1
    /\ Len(oplog) + 1 < MaxCalls
    /\ faults' = faults - 1
    /\ LET files == FilesOnCrash(gpx_files, Val(loc.file_path))
       IN  /\ gpx_files' = files
           /\ oplog' = Append(oplog, GpxEntry(Raised("Crash"), TRUE, Some(rres.data[1]),
                                              loc.file_path, files))
    /\ Restart
    /\ UNCHANGED <<settings_tokens, token_file, now, backend, gear_names, streams, suspended,
                   bot>>

(***************************************************************************)
(* The stream bundles upstream serves and the arguments callers give.      *)
(***************************************************************************)
StreamKeys == {"latlng", "time", "altitude", "heartrate", "cadence"}

\* sample i of a stream: a position pair, or a number that tells the stream
\* and the index
Sample(key, i) ==
    CASE key = "latlng"    -> <<10 + i, 20 + i>>
      [] key = "time"      -> 5 * i
      [] key = "altitude"  -> 100 + i
      [] key = "heartrate" -> 60 + i
      [] OTHER             -> 80 + i

\* a stream bundle keyed by type: lens gives the length of each stream, or
\* Nothing for a stream that is not in the bundle
Bundle(lens) ==
    [k \in {key \in StreamKeys : IsSome(lens[key])} |->
        [data |-> [i \in 1..Val(lens[k]) |-> Sample(k, i)]]]

Lens(ll, t, al, hr, cad) ==
    [k \in StreamKeys |->
        CASE k = "latlng" -> ll [] k = "time" -> t [] k = "altitude" -> al
          [] k = "heartrate" -> hr [] OTHER -> cad]

\* every stream with one sample per position
FullBundle == Bundle([k \in StreamKeys |-> Some(MaxPoints)])

\* a stream other than the positions: absent, one sample short, one too many
OtherLens == {Nothing, Some(MaxPoints - 1), Some(MaxPoints + 1)}
LatLngLens == {Some(0), Some(MaxPoints)}

StreamBundles ==
    {Bundle(Lens(ll, t, al, Nothing, Nothing)) :
        ll \in LatLngLens \cup {Nothing}, t \in OtherLens, al \in OtherLens}
    \cup {Bundle(Lens(ll, Some(MaxPoints + 1), Nothing, hr, cad)) :
        ll \in LatLngLens \cup {Nothing}, hr \in OtherLens, cad \in OtherLens}
    \cup {FullBundle}

\* the bundles against which the environment may fail and the callers vary
\* their arguments: a full one and one without positions; the other bundles
\* are there for the lengths of the streams
PlainBundles ==
    {FullBundle, Bundle(Lens(Nothing, Some(MaxPoints + 1), Some(MaxPoints - 1), Nothing, Nothing))}

\* activity_id, save_path and activity_name as the callers give them
PlainCall == [id |-> 1, dir |-> None, name |-> Nothing]
GpxCalls ==
    {PlainCall,
     [id |-> 2, dir |-> None, name |-> Nothing],
     [id |-> 1, dir |-> None, name |-> Some(<<"a", "/", "b">>)],
     [id |-> 1, dir |-> None, name |-> Some(<<>>)],
     [id |-> 1, dir |-> "exports", name |-> Nothing],
     [id |-> 2, dir |-> None, name |-> Some(<<"xmlns:gpxtpx", " ", "<", "c">>)]}
GpxCallsFor(s) == IF s[1] \in PlainBundles THEN GpxCalls ELSE {PlainCall}

(***************************************************************************)
(* The service after construction (__init__, _load_tokens): the token      *)
(* triple comes from the token file when there is one, else from settings. *)
(***************************************************************************)
InitialTokens ==
    [a : {"", "a0"}, r : {"", "r0"}, e : ExpiryValues]

InitTokens ==
    \E t \in InitialTokens, loaded \in BOOLEAN :
        /\ access_token = t.a
        /\ refresh_token = t.r
        /\ expires_at = t.e
        /\ IF loaded
           THEN /\ token_file = [st |-> "ok", a |-> t.a, r |-> t.r, e |-> t.e]
                /\ settings_tokens = [a |-> "", r |-> "", e |-> 0]
           ELSE /\ token_file = NoFile
                /\ settings_tokens = t

(***************************************************************************)
(* BotService (bot_service.py): the state dictionary and its file, the     *)
(* scheduler's jobs, and what a handler sends.                             *)
(***************************************************************************)
\* gpx_cleanup_schedule_hour and gpx_cleanup_schedule_minute
CleanupHour == 3
CleanupMinute == 0

\* {"chat_id": None, "schedule_time": None} (line 45); a chat id is a
\* non-zero number, 0 stands for None
DefaultState == [chat_id |-> 0, schedule_time |-> Nothing]
NoStateFile == [st |-> "absent", state |-> DefaultState]

\* _load_state (lines 37-45): the dictionary of the file when there is one
\* that can be read, the default otherwise
LoadState(file) == IF file.st = "ok" THEN file.state ELSE DefaultState

\* BotService as constructed (lines 27-35), over the state file it finds;
\* handler, sent, raised, arg: the handler that ran last, its messages, the
\* exception that left it, the arguments of its command;
\* token_ok: settings.bot_api_token is configured; cleanup:
\* settings.gpx_cleanup_enabled
NewBot(file, token_ok, cleanup) ==
    [state |-> LoadState(file), state_file |-> file, token_ok |-> token_ok,
     cleanup_enabled |-> cleanup, application |-> FALSE, jobs |-> {},
     handler |-> None, sent |-> <<>>, raised |-> None, torn |-> FALSE,
     chat |-> 0, silent |-> FALSE, checked |-> Nothing, arg |-> <<>>]

\* a task that has not started an operation
IdleFrame ==
    [rpc |-> "idle", rkind |-> None, rparams |-> NoParams, rhdr |-> "",
     rres |-> Raised(None), rlog |-> <<>>, rbodies |-> <<>>,
     pc |-> "idle", args |-> NoArgs, loc |-> NoLoc, outcome |-> Raised(None),
     pageReqs |-> <<>>, gearReqs |-> <<>>, cache0 |-> <<>>]

InitIdleService ==
    /\ gear_cache = <<>>
    /\ rpc = "idle"
    /\ rkind = None
    /\ rparams = NoParams
    /\ rhdr = ""
    /\ rres = Raised(None)
    /\ rlog = <<>>
    /\ rbodies = <<>>
    /\ pc = "idle"
    /\ args = NoArgs
    /\ loc = NoLoc
    /\ outcome = Raised(None)
    /\ pageReqs = <<>>
    /\ gearReqs = <<>>
    /\ cache0 = <<>>
    /\ oplog = <<>>
    /\ gear_names = GearNames0
    /\ gpx_files = <<>>
    /\ suspended = IdleFrame

\* the service idle, and a bot that no one has initialized
InitIdle ==
    /\ InitIdleService
    /\ bot = NewBot(NoStateFile, TRUE, TRUE)

InitReq ==
    /\ InitTokens
    /\ InitIdle
    /\ faults = MaxFaults
    /\ now = 10000
    /\ backend = <<>>
    /\ streams = <<>>

NextReq ==
    \/ get_athlete
    \/ \E o \in TokenResponses : EnsureRefreshResponse(o)
    \/ \E r \in ApiAnswers : FirstResponse(r.status, r.body)
    \/ \E o \in TokenResponses : Refresh401Response(o)
    \/ \E r \in ApiAnswers : RetryResponse(r.status, r.body)
    \/ get_athlete_done

SpecReq == InitReq /\ [][NextReq]_vars

(***************************************************************************)
(* get_activities against an upstream activity list.                       *)
(***************************************************************************)
\* the kinds of row upstream serves: start date, gear, sport
RowKinds ==
    { [start |-> 1, gear |-> None, sport |-> "Run"],
      [start |-> 2, gear |-> "g1", sport |-> "Run"],
      [start |-> 3, gear |-> "g2", sport |-> "Ride"],
      [start |-> 2, gear |-> None, sport |-> "Ride"],
      [start |-> 3, gear |-> "g1", sport |-> "Run"],
      [start |-> 1, gear |-> "g2", sport |-> "Run"] }

\* rows with ids in upstream's order; their start dates carry a UTC offset
WithIds(kinds) ==
    [i \in 1..Len(kinds) |-> [id |-> i, start |-> kinds[i].start, aware |-> TRUE,
                              gear |-> kinds[i].gear, sport |-> kinds[i].sport,
                              distance |-> 1000, moving_time |-> 300]]

\* the rows at the indexes S served with start dates that carry no UTC offset
WithNaive(rows, S) ==
    [i \in 1..Len(rows) |-> IF i \in S THEN [rows[i] EXCEPT !.aware = FALSE] ELSE rows[i]]

\* lists of one or two gearless rows, some of them with naive start dates
NaiveRowKinds ==
    { [start |-> 2, gear |-> None, sport |-> "Run"],
      [start |-> 3, gear |-> None, sport |-> "Ride"],
      [start |-> 3, gear |-> None, sport |-> "Run"] }
NaiveBackends ==
    {WithNaive(WithIds(k), S) : k \in [1..2 -> NaiveRowKinds], S \in {{1}, {2}, {1, 2}}}
    \cup {WithNaive(WithIds(k), {1}) : k \in [1..1 -> NaiveRowKinds]}
HasNaive(rows) == \E i \in 1..Len(rows) : ~rows[i].aware

\* every list of at most MaxRows rows, in every order
SmallBackends ==
    UNION {{WithIds(k) : k \in [1..n -> RowKinds]} : n \in 0..MaxRows}

\* long lists, around the page size of the all_pages loop
BigCounts == {199, 200, 250, 400}
BigRow(i) ==
    CASE i % 6 = 0 -> [start |-> 1, gear |-> None, sport |-> "Run"]
      [] i % 6 = 1 -> [start |-> 2, gear |-> "g1", sport |-> "Run"]
      [] i % 6 = 2 -> [start |-> 3, gear |-> "g2", sport |-> "Ride"]
      [] i % 6 = 3 -> [start |-> 2, gear |-> None, sport |-> "Ride"]
      [] i % 6 = 4 -> [start |-> 3, gear |-> "g1", sport |-> "Run"]
      [] OTHER     -> [start |-> 1, gear |-> "g2", sport |-> "Run"]
BigBackends == {WithIds([i \in 1..n |-> BigRow(i)]) : n \in BigCounts}

\* ActivityFilter() (models/strava.py lines 118-126)
DefaultFilter ==
    [before |-> Nothing, after |-> Nothing, page |-> 1, per_page |-> DefaultPerPage,
     activity_type |-> None, has_gear |-> Nothing, gear_id |-> None]

\* an aware bound, and a naive one read one second ahead of UTC
AfterValues ==
    {Nothing, Some([wall |-> 2, aware |-> TRUE, off |-> 0]),
     Some([wall |-> 2, aware |-> FALSE, off |-> LocalUtcOffset])}

PredicateFilters ==
    {[DefaultFilter EXCEPT !.activity_type = t, !.has_gear = h, !.gear_id = g, !.after = a] :
        t \in {None, "Run"}, h \in {Nothing, Some(TRUE), Some(FALSE)},
        g \in {None, "g1"}, a \in AfterValues}

PagingFilters ==
    {[DefaultFilter EXCEPT !.page = p, !.per_page = n, !.before = b] :
        p \in {1, 2}, n \in {1, MaxPerPage},
        b \in {Nothing, Some([wall |-> 3, aware |-> TRUE, off |-> 0])}}

\* activity_type and gear_id given as empty strings
EmptyStringFilter == [DefaultFilter EXCEPT !.activity_type = "", !.gear_id = ""]

Filters ==
    {Nothing} \cup {Some(f) : f \in PredicateFilters \cup PagingFilters \cup {EmptyStringFilter}}

\* the filters tried against the lists with naive start dates
NaiveFilters ==
    {Nothing} \cup {Some([DefaultFilter EXCEPT !.after = a, !.activity_type = t]) :
                        a \in AfterValues, t \in {None, "Run"}}

\* the filters tried against the long lists
BigFilters ==
    {Nothing, Some(DefaultFilter), Some([DefaultFilter EXCEPT !.has_gear = Some(FALSE)]),
     Some([DefaultFilter EXCEPT !.page = 2, !.per_page = MaxPerPage])}

\* the lists against which the environment may fail and the stored token may
\* lack its expiry date: the shortest ones and the long ones; the lists in
\* between are there for the orders and the filters
FaultyRun(rows) == Len(rows) <= 1 \/ Len(rows) > MaxRows

Init ==
    /\ access_token = "a0"
    /\ refresh_token = "r0"
    /\ backend \in SmallBackends \cup BigBackends \cup NaiveBackends
    /\ expires_at \in (IF Len(backend) <= 1 /\ ~HasNaive(backend) THEN {0, 20000} ELSE {20000})
    /\ token_file = NoFile
    /\ settings_tokens = [a |-> "a0", r |-> "r0", e |-> expires_at]
    /\ InitIdle
    /\ faults = (IF FaultyRun(backend) /\ ~HasNaive(backend) THEN MaxListFaults ELSE 0)
    /\ now = 10030
    /\ streams = <<>>

Next ==
    \/ \E f \in Filters, all_pages \in BOOLEAN :
         /\ Len(backend) > MaxRows => f \in BigFilters
         /\ HasNaive(backend) => f \in NaiveFilters
         /\ get_activities(f, all_pages)
    \/ get_activities_page
    \/ get_activities_gear
    \/ \E o \in TokenResponses : EnsureRefreshResponse(o)
    \/ \E r \in ApiAnswers : FirstResponse(r.status, r.body)
    \/ \E o \in TokenResponses : Refresh401Response(o)
    \/ \E r \in ApiAnswers : RetryResponse(r.status, r.body)

Spec == Init /\ [][Next]_vars

\* the all_pages loop against the empty list and the lists of one and of two
\* full pages, with every request answered in the end and the code running on
\* after each answer
InitPaging == Init /\ Len(backend) \in {0, MaxPerPage, 2 * MaxPerPage}

NextPaging ==
    \/ \E f \in BigFilters : get_activities(f, TRUE)
    \/ get_activities_page
    \/ get_activities_gear
    \/ \E o \in TokenResponses : EnsureRefreshResponse(o)
    \/ \E r \in ApiAnswers : FirstResponse(r.status, r.body)
    \/ \E o \in TokenResponses : Refresh401Response(o)
    \/ \E r \in ApiAnswers : RetryResponse(r.status, r.body)

SpecPaging == InitPaging /\ [][NextPaging]_vars /\ WF_vars(NextPaging)

(***************************************************************************)
(* GET /stats/summary (routes.py lines 160-234): the activities of the     *)
(* range, fetched with all_pages, then their summary.                      *)
(***************************************************************************)
\* the power of two by which x is scaled down to fit the mantissa
RECURSIVE Scale(_)
Scale(x) == IF x < MaxMantissa THEN 1 ELSE 2 * Scale(x \div 2)

\* the float nearest to x, ties to the even mantissa
Round(x) ==
    LET s == Scale(x)
        q == x \div s
        r == x % s
    IN  IF 2 * r < s THEN q * s
        ELSE IF 2 * r > s THEN (q + 1) * s
        ELSE (IF q % 2 = 0 THEN q ELSE q + 1) * s

\* an addition of floats without rounding
FAddExact(x, y) == x + y

\* x + y on floats
FAdd(x, y) == Round(x + y)

\* sum(activity.distance for ...) and the "+=" of the loop: floats added from
\* the left in list order (lines 188, 212)
RECURSIVE SumDistanceFrom(_, _)
SumDistanceFrom(acc, acts) ==
    IF acts = <<>> THEN acc
    ELSE SumDistanceFrom(FAdd(acc, Head(acts).distance), Tail(acts))
SumDistance(acts) == SumDistanceFrom(0, acts)

\* sum(activity.moving_time for ...) and its "+=": integers (lines 189, 213)
RECURSIVE SumTime(_)
SumTime(acts) == IF acts = <<>> THEN 0 ELSE Head(acts).moving_time + SumTime(Tail(acts))

\* a count of the activities that have gear
WithGearCount(acts) == Len(SelectSeq(acts, LAMBDA a : a.gear # None))

\* len([a for a in activities if a.gear_id is None]) (line 190)
WithoutGear(acts) == Len(SelectSeq(acts, LAMBDA a : a.gear = None))

\* per-type entries for Run whether or not there is a Run
TypesOfWithRun(acts) == {acts[i].sport : i \in 1..Len(acts)} \cup {"Run"}

\* the keys of the per-type dictionaries: the sport types met in the loop
\* (lines 195-201)
TypesOf(acts) == {acts[i].sport : i \in 1..Len(acts)}

OfType(acts, t) == SelectSeq(acts, LAMBDA a : a.sport = t)

\* the dictionary the route returns (lines 187-232), without the rounded
\* kilometre and hour figures derived from these
Summary(acts) ==
    [total |-> [count |-> Len(acts),
                distance_meters |-> SumDistance(acts),
                time_seconds |-> SumTime(acts),
                activities_without_gear |-> WithoutGear(acts)],
     activity_types_count |-> [t \in TypesOf(acts) |-> Len(OfType(acts, t))],
     activity_types_detailed |->
         [t \in TypesOf(acts) |->
             [count |-> Len(OfType(acts, t)),
              distance_meters |-> SumDistance(OfType(acts, t)),
              time_seconds |-> SumTime(OfType(acts, t))]]]

\* the route, up to the first page request of get_activities on the wire
\* (lines 161-185); after is the bound of the range, if any
get_activity_stats(after) ==
    CallGetActivities("get_activity_stats", Some([DefaultFilter EXCEPT !.after = after]), TRUE)

\* get_activities is over (lines 185-234): the summary of its list, a 400
\* for its StravaAPIError, any other exception as it is
get_activity_stats_done ==
    /\ pc = "done"
    /\ args.op = "get_activity_stats"
    /\ pc' = "responded"
    /\ IF outcome.kind = "data"
       THEN /\ outcome' = Returned(<<Summary(outcome.data)>>)
            /\ loc' = [loc EXCEPT !.activities = outcome.data]
       ELSE /\ outcome' = IF outcome.kind = "StravaAPIError"
                          THEN Raised("HTTPException") ELSE outcome
            /\ loc' = loc
    /\ UNCHANGED <<tokenVars, gear_cache, now, faults, envVars, rpc, rkind, rparams, rhdr,
                   rres, rlog, rbodies, args, pageReqs, gearReqs, cache0, oplog>>

\* the kinds of row the statistics are made of: sport, gear, distance, time
StatsRowKinds ==
    { [start |-> 3, gear |-> None, sport |-> "Run",  distance |-> 1000, moving_time |-> 300],
      [start |-> 3, gear |-> "g1", sport |-> "Ride", distance |-> 5000, moving_time |-> 600],
      [start |-> 3, gear |-> "g1", sport |-> "Run",  distance |-> MaxMantissa - 1,
                                                       moving_time |-> 1],
      [start |-> 3, gear |-> None, sport |-> "Ride", distance |-> 2,    moving_time |-> 2],
      [start |-> 1, gear |-> None, sport |-> "Run",  distance |-> 1,    moving_time |-> 3],
      [start |-> 3, gear |-> None, sport |-> "Walk", distance |-> 2,    moving_time |-> 5] }

StatsRows(kinds) ==
    [i \in 1..Len(kinds) |-> [WithIds(kinds)[i] EXCEPT !.distance = kinds[i].distance,
                                                       !.moving_time = kinds[i].moving_time]]

StatsBackends == UNION {{StatsRows(k) : k \in [1..n -> StatsRowKinds]} : n \in 0..MaxStatsRows}

\* the bound of a range, as datetime.now() minus the range: naive
StatsAfterValues == {Nothing, Some([wall |-> 2, aware |-> FALSE, off |-> LocalUtcOffset])}

InitStats ==
    /\ access_token = "a0"
    /\ refresh_token = "r0"
    /\ backend \in StatsBackends
    /\ expires_at \in (IF Len(backend) = 0 THEN {0, 20000} ELSE {20000})
    /\ token_file = NoFile
    /\ settings_tokens = [a |-> "a0", r |-> "r0", e |-> expires_at]
    /\ InitIdle
    /\ faults = (IF Len(backend) <= 1 THEN MaxListFaults ELSE 0)
    /\ now = 10030
    /\ streams = <<>>

NextStats ==
    \/ \E after \in StatsAfterValues : get_activity_stats(after)
    \/ get_activities_page
    \/ get_activities_gear
    \/ get_activity_stats_done
    \/ \E o \in TokenResponses : EnsureRefreshResponse(o)
    \/ \E r \in ApiAnswers : FirstResponse(r.status, r.body)
    \/ \E o \in TokenResponses : Refresh401Response(o)
    \/ \E r \in ApiAnswers : RetryResponse(r.status, r.body)

SpecStats == InitStats /\ [][NextStats]_vars

(***************************************************************************)
(* get_running_activities (strava_service.py lines 449-461).               *)
(***************************************************************************)
\* "if limit": None and 0 are both false
LimitGiven(limit) == IsSome(limit) /\ Val(limit) # 0

\* "if limit and limit <= 200" (line 451)
SinglePage(limit) == LimitGiven(limit) /\ Val(limit) <= MaxPerPage

\* the call, up to the first page request of get_activities on the wire: one
\* page of limit rows (lines 451-453), or all pages (lines 455-456)
get_running_activities(limit) ==
    IF SinglePage(limit)
    THEN CallGetActivitiesLimited("get_running_activities",
             Some([DefaultFilter EXCEPT !.activity_type = "Run", !.per_page = Val(limit)]),
             FALSE, limit)
    ELSE CallGetActivitiesLimited("get_running_activities",
             Some([DefaultFilter EXCEPT !.activity_type = "Run"]), TRUE, limit)

\* activities[:limit]
FirstOf(acts, n) == SubSeq(acts, 1, Min(n, Len(acts)))

\* get_activities is over: its list as it is on the single-page path (line
\* 453), cut to the limit on the other (lines 458-461); its exception as it
\* is
get_running_activities_done ==
    /\ pc = "done"
    /\ args.op = "get_running_activities"
    /\ pc' = "responded"
    /\ outcome' = IF outcome.kind = "data" /\ args.all_pages /\ LimitGiven(args.limit)
                     /\ Len(outcome.data) > Val(args.limit)
                  THEN Returned(FirstOf(outcome.data, Val(args.limit)))
                  ELSE outcome
    /\ loc' = [loc EXCEPT !.activities = IF outcome.kind = "data" THEN outcome.data ELSE <<>>]
    /\ UNCHANGED <<tokenVars, gear_cache, now, faults, envVars, rpc, rkind, rparams, rhdr,
                   rres, rlog, rbodies, args, pageReqs, gearReqs, cache0, oplog>>

\* the rows of the running listing: runs and rides of today and of before
RunningRowKinds ==
    { [start |-> 3, gear |-> None, sport |-> "Run"],
      [start |-> 3, gear |-> None, sport |-> "Ride"],
      [start |-> 1, gear |-> "g1", sport |-> "Run"],
      [start |-> 1, gear |-> None, sport |-> "Ride"] }

\* upstream serves the newest first
NewestFirst(rows) == \A i \in 1..Len(rows) : \A j \in i..Len(rows) : rows[i].start >= rows[j].start

\* lists of up to MaxStatsRows rows, and lists of more than one page
RunningBackends ==
    {b \in UNION {{WithIds(k) : k \in [1..n -> RunningRowKinds]} : n \in 0..MaxStatsRows} :
        NewestFirst(b)}
    \cup {WithIds([i \in 1..n |-> [start |-> 3, gear |-> None,
                                   sport |-> IF i % 3 = 0 THEN "Ride" ELSE "Run"]]) :
            n \in {MaxPerPage + 50, 2 * MaxPerPage}}

\* no limit, 0, small limits, a full page, and more than a page
RunningLimits == {Nothing, Some(0), Some(1), Some(2), Some(MaxPerPage), Some(MaxPerPage + 1)}

InitRunning ==
    /\ access_token = "a0"
    /\ refresh_token = "r0"
    /\ backend \in RunningBackends
    /\ expires_at \in (IF Len(backend) = 0 THEN {0, 20000} ELSE {20000})
    /\ token_file = NoFile
    /\ settings_tokens = [a |-> "a0", r |-> "r0", e |-> expires_at]
    /\ InitIdle
    /\ faults = (IF Len(backend) <= 1 THEN MaxListFaults ELSE 0)
    /\ now = 10030
    /\ streams = <<>>

NextRunning ==
    \/ \E limit \in RunningLimits :
          /\ Len(backend) > MaxStatsRows => (IsSome(limit) /\ Val(limit) >= MaxPerPage)
          /\ get_running_activities(limit)
    \/ get_activities_page
    \/ get_activities_gear
    \/ get_running_activities_done
    \/ \E o \in TokenResponses : EnsureRefreshResponse(o)
    \/ \E r \in ApiAnswers : FirstResponse(r.status, r.body)
    \/ \E o \in TokenResponses : Refresh401Response(o)
    \/ \E r \in ApiAnswers : RetryResponse(r.status, r.body)

SpecRunning == InitRunning /\ [][NextRunning]_vars

(***************************************************************************)
(* GET /activities (routes.py lines 29-77): all matching activities are    *)
(* fetched, and the page asked for is cut out of them in memory.           *)
(***************************************************************************)
\* the backup filter of the route (lines 54-57)
RouteAfterFilter(acts, after) ==
    IF IsSome(after)
    THEN SelectSeq(acts, LAMBDA a : Timestamp(StartDate(a)) > Timestamp(Val(after)))
    ELSE acts

\* a page count that forgets the last, short page
TotalPagesFloor(total, per_page) == total \div per_page

\* "(total + per_page - 1) // per_page" (line 60)
TotalPages(total, per_page) == (total + per_page - 1) \div per_page

\* "fetched_activities[start_idx:end_idx]" (lines 63-65)
Paginate(acts, page, per_page) ==
    LET start_idx == (page - 1) * per_page
        end_idx == start_idx + per_page
    IN  [i \in 1..(Min(end_idx, Len(acts)) - Min(start_idx, Len(acts))) |-> acts[start_idx + i]]

\* the route, up to the first page request of get_activities on the wire
\* (lines 40-52)
get_activities_route(filter) == CallGetActivities("get_activities_route", Some(filter), TRUE)

\* get_activities is over (lines 52-77): the page of its list, a 400 for
\* its StravaAPIError, any other exception as it is
get_activities_route_done ==
    /\ pc = "done"
    /\ args.op = "get_activities_route"
    /\ pc' = "responded"
    /\ LET f == Val(args.filter)
           fetched == IF outcome.kind = "data" THEN RouteAfterFilter(outcome.data, f.after)
                      ELSE <<>>
           total == Len(fetched)
       IN  IF outcome.kind = "data"
           THEN /\ outcome' = Returned(<<[items |-> Paginate(fetched, f.page, f.per_page),
                                          total |-> total, page |-> f.page,
                                          per_page |-> f.per_page,
                                          total_pages |-> TotalPages(total, f.per_page)]>>)
                /\ loc' = [loc EXCEPT !.activities = fetched]
           ELSE /\ outcome' = IF outcome.kind = "StravaAPIError"
                              THEN Raised("HTTPException") ELSE outcome
                /\ loc' = loc
    /\ UNCHANGED <<tokenVars, gear_cache, now, faults, envVars, rpc, rkind, rparams, rhdr,
                   rres, rlog, rbodies, args, pageReqs, gearReqs, cache0, oplog>>

\* page sizes and page numbers of the query, for short lists and for lists
\* of more than one upstream page
RoutePerPages == {1, 2, 3}
RoutePages == 1..(MaxStatsRows + 1)
RouteFilters ==
    {[DefaultFilter EXCEPT !.page = p, !.per_page = pp, !.has_gear = h, !.after = a] :
        p \in RoutePages, pp \in RoutePerPages, h \in {Nothing, Some(FALSE)},
        a \in AfterValues}
RouteBigFilters ==
    {[DefaultFilter EXCEPT !.page = p, !.per_page = pp] :
        p \in 1..4, pp \in {MaxPerPage \div 2, MaxPerPage}}

RouteRowKinds ==
    { [start |-> 3, gear |-> None, sport |-> "Run"],
      [start |-> 2, gear |-> "g1", sport |-> "Run"],
      [start |-> 1, gear |-> None, sport |-> "Ride"] }

RouteBackends ==
    UNION {{WithIds(k) : k \in [1..n -> RouteRowKinds]} : n \in 0..MaxStatsRows}
    \cup {WithIds([i \in 1..(MaxPerPage + 50) |-> BigRow(i)])}

InitRoute ==
    /\ access_token = "a0"
    /\ refresh_token = "r0"
    /\ backend \in RouteBackends
    /\ expires_at \in (IF Len(backend) = 0 THEN {0, 20000} ELSE {20000})
    /\ token_file = NoFile
    /\ settings_tokens = [a |-> "a0", r |-> "r0", e |-> expires_at]
    /\ InitIdle
    /\ faults = (IF Len(backend) <= 1 THEN MaxListFaults ELSE 0)
    /\ now = 10030
    /\ streams = <<>>

NextRoute ==
    \/ \E f \in RouteFilters \cup RouteBigFilters :
          /\ (Len(backend) > MaxStatsRows) = (f \in RouteBigFilters)
          /\ get_activities_route(f)
    \/ get_activities_page
    \/ get_activities_gear
    \/ get_activities_route_done
    \/ \E o \in TokenResponses : EnsureRefreshResponse(o)
    \/ \E r \in ApiAnswers : FirstResponse(r.status, r.body)
    \/ \E o \in TokenResponses : Refresh401Response(o)
    \/ \E r \in ApiAnswers : RetryResponse(r.status, r.body)

SpecRoute == InitRoute /\ [][NextRoute]_vars

(***************************************************************************)
(* One service instance over a sequence of operations: the gear cache      *)
(* lives across them, and upstream may rename a gear in between.           *)
(***************************************************************************)
\* the caller has the result: the frames of the operation and of its last
\* request are gone, and the service is free for the next operation
next_call ==
    /\ pc = "done"
    /\ Len(oplog) < MaxCalls
    /\ pc' = "idle"
    /\ rkind' = None
    /\ rparams' = NoParams
    /\ rres' = Raised(None)
    /\ rlog' = <<>>
    /\ rbodies' = <<>>
    /\ args' = NoArgs
    /\ loc' = NoLoc
    /\ outcome' = Raised(None)
    /\ pageReqs' = <<>>
    /\ gearReqs' = <<>>
    /\ cache0' = <<>>
    /\ UNCHANGED <<tokenVars, gear_cache, now, faults, envVars, rpc, rhdr, oplog>>

\* between two operations the athlete renames a gear upstream
upstream_gear_renamed ==
    /\ pc = "idle"
    /\ gear_names = GearNames0
    /\ \E g \in GearIds : gear_names' = [gear_names EXCEPT ![g] = "Renamed"]
    /\ UNCHANGED <<tokenVars, gear_cache, now, faults, backend, streams, gpx_files, rpc,
                   rkind, rparams, rhdr, rres, rlog, rbodies, opVars, suspended, bot>>

ServiceRowKinds ==
    { [start |-> 1, gear |-> None, sport |-> "Run"],
      [start |-> 2, gear |-> "g1", sport |-> "Run"],
      [start |-> 3, gear |-> "g2", sport |-> "Ride"] }

\* the empty list, the lists of two rows of these kinds, and a list of one
\* full page of the all_pages loop
ServiceBackends ==
    {<<>>}
    \cup {WithIds(k) : k \in [1..2 -> ServiceRowKinds]}
    \cup {WithIds([i \in 1..MaxPerPage |-> BigRow(i)])}

\* the lists against which the environment may fail: a list of two gears and
\* the full page; the other lists are there for the gear ids and the cache
ServiceFaultyRun(rows) ==
    \/ Len(rows) > 2
    \/ Len(rows) = 2 /\ rows[1].gear = "g1" /\ rows[2].gear = "g2"

\* filter and all_pages as the callers give them
ServiceCalls ==
    {[filter |-> Nothing, all_pages |-> FALSE],
     [filter |-> Nothing, all_pages |-> TRUE],
     [filter |-> Some([DefaultFilter EXCEPT !.has_gear = Some(TRUE)]), all_pages |-> TRUE],
     [filter |-> Some([DefaultFilter EXCEPT !.per_page = 1]), all_pages |-> FALSE],
     [filter |-> Some([DefaultFilter EXCEPT !.page = 2, !.per_page = 1]), all_pages |-> FALSE]}

\* against the full page the callers ask for the list only, without filter
ShortList == Len(backend) < MaxPerPage
ServiceCallsFor(rows) ==
    IF Len(rows) < MaxPerPage THEN ServiceCalls
    ELSE {c \in ServiceCalls : c.filter = Nothing}

InitService ==
    /\ access_token = "a0"
    /\ refresh_token = "r0"
    /\ backend \in ServiceBackends
    /\ expires_at \in (IF backend = <<>> THEN {0, 20000} ELSE {20000})
    /\ token_file = NoFile
    /\ settings_tokens = [a |-> "a0", r |-> "r0", e |-> expires_at]
    /\ InitIdle
    /\ faults = (IF ServiceFaultyRun(backend) THEN MaxServiceFaults ELSE 0)
    /\ now = 10030
    /\ streams = [id \in ActivityIds |-> FullBundle]

NextService ==
    \/ \E c \in ServiceCallsFor(backend) : get_activities(c.filter, c.all_pages)
    \/ get_activities_page
    \/ get_activities_gear
    \/ ShortList /\ get_athlete_gear
    \/ get_athlete_gear_list
    \/ get_athlete_gear_gear
    \/ \E g \in GearIds : ShortList /\ get_gear_by_id(g)
    \/ get_gear_by_id_done
    \/ ShortList /\ download_gpx(1, None, Nothing)
    \/ download_gpx_activity
    \/ download_gpx_streams
    \/ next_call
    \/ upstream_gear_renamed
    \/ \E o \in TokenResponses : EnsureRefreshResponse(o)
    \/ \E r \in ApiAnswers : FirstResponse(r.status, r.body)
    \/ \E o \in TokenResponses : Refresh401Response(o)
    \/ \E r \in ApiAnswers : RetryResponse(r.status, r.body)

SpecService == InitService /\ [][NextService]_vars

(***************************************************************************)
(* Two get_activities calls on one service, as two tasks of one event      *)
(* loop: a task runs until it awaits a response; then the other may run.   *)
(* The tokens and the gear cache are the service's, shared by both.        *)
(***************************************************************************)
\* the task that runs: its request and its operation
RunningFrame ==
    [rpc |-> rpc, rkind |-> rkind, rparams |-> rparams, rhdr |-> rhdr,
     rres |-> rres, rlog |-> rlog, rbodies |-> rbodies,
     pc |-> pc, args |-> args, loc |-> loc, outcome |-> outcome,
     pageReqs |-> pageReqs, gearReqs |-> gearReqs, cache0 |-> cache0]

\* the running task awaits (a request is on the wire, or its response has
\* come and the task was not resumed yet) or is over, and the event loop
\* resumes the other task, which is not over
switch_task ==
    /\ suspended.pc # "done"
    /\ suspended' = RunningFrame
    /\ rpc' = suspended.rpc
    /\ rkind' = suspended.rkind
    /\ rparams' = suspended.rparams
    /\ rhdr' = suspended.rhdr
    /\ rres' = suspended.rres
    /\ rlog' = suspended.rlog
    /\ rbodies' = suspended.rbodies
    /\ pc' = suspended.pc
    /\ args' = suspended.args
    /\ loc' = suspended.loc
    /\ outcome' = suspended.outcome
    /\ pageReqs' = suspended.pageReqs
    /\ gearReqs' = suspended.gearReqs
    /\ cache0' = suspended.cache0
    /\ UNCHANGED <<tokenVars, gear_cache, now, faults, backend, gear_names, streams,
                   gpx_files, oplog, bot>>

\* lists of two activities, with one gear or two
RaceBackends ==
    {WithIds(k) : k \in {<<r1, r2>> : r1 \in {r \in ServiceRowKinds : r.gear = "g1"},
                                      r2 \in {r \in ServiceRowKinds : r.gear # None}}}

InitRace ==
    /\ access_token = "a0"
    /\ refresh_token = "r0"
    /\ backend \in RaceBackends
    /\ expires_at \in (IF backend[2].gear = "g1" THEN {0, 20000} ELSE {20000})
    /\ token_file = NoFile
    /\ settings_tokens = [a |-> "a0", r |-> "r0", e |-> expires_at]
    /\ InitIdle
    /\ faults \in (IF expires_at = 0 THEN {0} ELSE {0, MaxRaceFaults})
    /\ now = 10030
    /\ streams = [id \in ActivityIds |-> FullBundle]

NextRace ==
    \/ get_activities(Nothing, FALSE)
    \/ get_activities_page
    \/ get_activities_gear
    \/ switch_task
    \/ upstream_gear_renamed
    \/ \E o \in TokenResponses : EnsureRefreshResponse(o)
    \/ \E r \in ApiAnswers : FirstResponse(r.status, r.body)
    \/ \E o \in TokenResponses : Refresh401Response(o)
    \/ \E r \in ApiAnswers : RetryResponse(r.status, r.body)

SpecRace == InitRace /\ [][NextRace]_vars

(***************************************************************************)
(* The handlers of the bot, the jobs of its scheduler and the checks.      *)
(***************************************************************************)
\* the state file after _save_state (lines 47-54) with the given outcome of
\* the file system
SaveStateFile(file, state, save) ==
    CASE save = "ok"         -> [st |-> "ok", state |-> state]
      [] save = "write_fail" -> [st |-> "truncated", state |-> DefaultState]
      [] OTHER               -> file

\* what the file system does to a _save_state: the write, a directory that
\* cannot be made, a file that cannot be opened, a write that fails half way
StateSaveOutcomes == {"ok", "mkdir_fail", "open_fail", "write_fail"}

\* os.makedirs is outside the try block (line 49): its error leaves
\* _save_state
SaveStateRaises(save) == save = "mkdir_fail"

\* f"{hour:02d}:{minute:02d}" (line 104): two digits, a colon, two digits
TwoDigits(n) == <<n \div 10, n % 10>>
FormatTime(hour, minute) == [hh |-> TwoDigits(hour), mm |-> TwoDigits(minute)]

\* int() of a string of digits
RECURSIVE IntOf(_)
IntOf(digits) ==
    IF digits = <<>> THEN 0 ELSE 10 * IntOf(SubSeq(digits, 1, Len(digits) - 1)) + digits[Len(digits)]

\* "h, m = map(int, stored_time.split(':'))" (line 404)
ParseStored(stored) == [hour |-> IntOf(stored.hh), minute |-> IntOf(stored.mm)]

\* the argument of /schedule split at its colons: each part is a number
\* as int() reads it, or text that int() refuses
Part(n) == [num |-> TRUE, n |-> n]
NotANumber == [num |-> FALSE, n |-> 0]

\* a range test that lets hour 24 and minute 60 through
InRangeInclusive(hour, minute) == 0 <= hour /\ hour <= 24 /\ 0 <= minute /\ minute <= 60

\* "0 <= hour <= 23 and 0 <= minute <= 59" (line 101)
InRange(hour, minute) == 0 <= hour /\ hour <= 23 /\ 0 <= minute /\ minute <= 59

\* lines 100-102: ValueError from int(), from the unpacking into two names,
\* or from the range test
RaisesValueError(parts) ==
    \/ Len(parts) # 2
    \/ \E i \in 1..Len(parts) : ~parts[i].num
    \/ ~InRange(parts[1].n, parts[2].n)

\* a scheduler that removes nothing
KeepAllJobs(jobs) == jobs

\* scheduler.remove_all_jobs() (lines 121, 278)
RemoveAllJobs(jobs) == {}

\* scheduler.add_job(..., id=..., replace_existing=True) (lines 279-284,
\* 387-395)
AddJob(jobs, job) == {j \in jobs : j.id # job.id} \cup {job}

\* _schedule_job (lines 276-285)
ScheduleJob(jobs, hour, minute) ==
    AddJob(RemoveAllJobs(jobs), [id |-> "daily_check", hour |-> hour, minute |-> minute])

\* a message to a chat: its kind, and for a list of activities the ids it
\* shows and the number it leaves out
Msg(kind, chat) == [kind |-> kind, to |-> chat, ids |-> <<>>, more |-> 0]

\* a handler starts: the messages and the exception of the one before are
\* forgotten
Handling(b, name) ==
    [b EXCEPT !.handler = name, !.sent = <<>>, !.raised = None, !.checked = Nothing,
              !.chat = 0, !.silent = FALSE, !.arg = <<>>]

\* a handler that talks to no one but the bot; handlers run one at a time
OnlyBot ==
    /\ pc = "idle" /\ rpc = "idle"
    /\ UNCHANGED <<tokenVars, gear_cache, now, faults, backend, gear_names, streams,
                   gpx_files, suspended, rpc, rkind, rparams, rhdr, rres, rlog, rbodies,
                   opVars>>

\* initialize (lines 357-412): nothing without a token; else the
\* application, the cleanup job when it is enabled, and the daily check of
\* the stored time
initialize ==
    /\ ~bot.application
    /\ bot.handler = None
    /\ LET b == Handling(bot, "initialize")
           withCleanup ==
               IF b.cleanup_enabled
               THEN AddJob(b.jobs, [id |-> "gpx_cleanup", hour |-> CleanupHour,
                                    minute |-> CleanupMinute])
               ELSE b.jobs
           stored == b.state.schedule_time
       IN  bot' = IF ~b.token_ok THEN b
                  ELSE [b EXCEPT !.application = TRUE,
                                 !.jobs = IF IsSome(stored)
                                          THEN ScheduleJob(withCleanup,
                                                           ParseStored(Val(stored)).hour,
                                                           ParseStored(Val(stored)).minute)
                                          ELSE withCleanup]
    /\ OnlyBot

\* /start (lines 56-65)
start(chat_id, save) ==
    /\ bot.application
    /\ LET b == Handling(bot, "start")
           state == [b.state EXCEPT !.chat_id = chat_id]
       IN  bot' = [b EXCEPT !.state = state,
                            !.state_file = SaveStateFile(b.state_file, state, save),
                            !.raised = IF SaveStateRaises(save) THEN "OSError" ELSE None,
                            !.sent = IF SaveStateRaises(save) THEN <<>> ELSE <<Msg("welcome", chat_id)>>]
    /\ OnlyBot

\* /schedule (lines 74-115); args is context.args, each argument split at
\* its colons
schedule_command(chat, args_, save) ==
    /\ bot.application
    /\ LET b == [Handling(bot, "schedule") EXCEPT !.arg = args_]
       IN  IF args_ = <<>>
           THEN bot' = [b EXCEPT !.sent = IF IsSome(b.state.schedule_time)
                                          THEN <<Msg("current_schedule", chat)>>
                                          ELSE <<Msg("no_schedule", chat)>>]
           ELSE IF RaisesValueError(args_[1])
           THEN bot' = [b EXCEPT !.sent = <<Msg("invalid_time", chat)>>]
           ELSE LET hour == args_[1][1].n
                    minute == args_[1][2].n
                    state == [b.state EXCEPT !.schedule_time = Some(FormatTime(hour, minute))]
                IN  bot' = IF SaveStateRaises(save)
                           THEN [b EXCEPT !.state = state, !.raised = "OSError",
                                          !.torn = TRUE]
                           ELSE [b EXCEPT !.state = state,
                                          !.state_file = SaveStateFile(b.state_file, state, save),
                                          !.jobs = ScheduleJob(b.jobs, hour, minute),
                                          !.sent = <<Msg("scheduled", chat)>>,
                                          !.torn = FALSE]
    /\ OnlyBot

\* /stop (lines 117-122)
stop_command(chat, save) ==
    /\ bot.application
    /\ LET b == Handling(bot, "stop")
           state == [b.state EXCEPT !.schedule_time = Nothing]
       IN  bot' = IF SaveStateRaises(save)
                  THEN [b EXCEPT !.state = state, !.raised = "OSError", !.torn = TRUE]
                  ELSE [b EXCEPT !.state = state,
                                 !.state_file = SaveStateFile(b.state_file, state, save),
                                 !.jobs = RemoveAllJobs(b.jobs),
                                 !.sent = <<Msg("stopped", chat)>>,
                                 !.torn = FALSE]
    /\ OnlyBot

\* the arguments of /schedule as users type them: none, good times, times
\* out of range, text, one part, three parts, and a second argument
ScheduleArgs ==
    {<<>>,
     <<<<Part(20), Part(0)>>>>, <<<<Part(7), Part(5)>>>>, <<<<Part(23), Part(59)>>>>,
     <<<<Part(24), Part(0)>>>>, <<<<Part(12), Part(60)>>>>, <<<<Part(0 - 1), Part(30)>>>>,
     <<<<NotANumber, Part(10)>>>>, <<<<Part(10), NotANumber>>>>,
     <<<<Part(12)>>>>, <<<<NotANumber>>>>, <<<<Part(1), Part(2), Part(3)>>>>,
     <<<<Part(20), Part(0)>>, <<NotANumber>>>>}

\* the state files a bot can find at start: none, one it wrote, one it
\* failed to write
StateFiles ==
    {NoStateFile, [st |-> "truncated", state |-> DefaultState]}
    \cup {[st |-> "ok", state |-> [chat_id |-> c, schedule_time |-> t]] :
            c \in {0, 7}, t \in {Nothing, Some(FormatTime(20, 0)), Some(FormatTime(7, 5))}}

\* datetime.now() of a check, in days; the rows of the backend start on
\* days 1..Today
Today == 4

\* "for activity in activities[:10]" (line 324)
ListShown == 10

\* "datetime.now() - timedelta(days=days_back)" (line 308): naive
CheckAfter(days_back) ==
    Some([wall |-> Today - days_back, aware |-> FALSE, off |-> LocalUtcOffset])

\* check_activities_without_gear up to its await of the service (lines
\* 297-311): get_activities_without_gear(after) (strava_service.py lines
\* 444-447) is get_activities with has_gear=False over all pages
CheckActivitiesWithoutGear(op, days_back) ==
    CallGetActivities(op, Some([DefaultFilter EXCEPT !.has_gear = Some(FALSE),
                                                     !.after = CheckAfter(days_back)]), TRUE)

\* /check (lines 67-72): "Checking...", then the check of the last 7 days
check_command(chat) ==
    /\ bot.application
    /\ bot' = [Handling(bot, "check_command") EXCEPT
                  !.sent = <<Msg("checking", chat)>>, !.chat = chat, !.silent = FALSE]
    /\ CheckActivitiesWithoutGear("check_command", 7)

\* the daily_check job fires (lines 287-295): nothing without a chat id,
\* else the silent check of the last day
scheduled_check ==
    /\ bot.application
    /\ \E j \in bot.jobs : j.id = "daily_check"
    /\ IF bot.state.chat_id = 0
       THEN /\ bot' = Handling(bot, "scheduled_check")
            /\ OnlyBot
       ELSE /\ bot' = [Handling(bot, "scheduled_check") EXCEPT
                         !.chat = bot.state.chat_id, !.silent = TRUE]
            /\ CheckActivitiesWithoutGear("scheduled_check", 1)

\* the message of lines 322-329: the first ten activities and the number of
\* the others
ListMessage(chat, activities) ==
    [Msg("list", chat) EXCEPT
        !.ids = [i \in 1..Min(ListShown, Len(activities)) |-> activities[i].id],
        !.more = IF Len(activities) > ListShown THEN Len(activities) - ListShown ELSE 0]

\* a check that is never silent
CheckMessagesAlways(chat, silent, res) ==
    IF res.kind # "data" THEN <<Msg("error", chat)>>
    ELSE IF res.data = <<>> THEN <<Msg("all_good", chat)>>
    ELSE <<ListMessage(chat, res.data)>>

\* what the check sends once the service has answered (lines 312-339)
CheckMessages(chat, silent, res) ==
    IF res.kind # "data" THEN <<Msg("error", chat)>>
    ELSE IF res.data = <<>> THEN (IF silent THEN <<>> ELSE <<Msg("all_good", chat)>>)
    ELSE <<ListMessage(chat, res.data)>>

\* get_activities_without_gear is over: the rest of the check
check_done ==
    /\ pc = "done"
    /\ args.op \in BotOps
    /\ bot' = [bot EXCEPT !.sent = bot.sent \o CheckMessages(bot.chat, bot.silent, outcome),
                          !.checked = Some(outcome)]
    /\ pc' = "idle"
    /\ rkind' = None
    /\ rparams' = NoParams
    /\ rres' = Raised(None)
    /\ rlog' = <<>>
    /\ rbodies' = <<>>
    /\ args' = NoArgs
    /\ loc' = NoLoc
    /\ outcome' = Raised(None)
    /\ pageReqs' = <<>>
    /\ gearReqs' = <<>>
    /\ cache0' = <<>>
    /\ oplog' = <<>>
    /\ UNCHANGED <<tokenVars, gear_cache, now, faults, backend, gear_names, streams,
                   gpx_files, suspended, rpc, rhdr>>

\* the lists of the bot's athlete: none, gearless rows of yesterday and of
\* the week, rows with gear, and more gearless rows than a message shows
BotRowKinds ==
    { [start |-> Today, gear |-> None, sport |-> "Run"],
      [start |-> 2,     gear |-> None, sport |-> "Ride"],
      [start |-> Today, gear |-> "g1", sport |-> "Run"] }

BotBackends ==
    {<<>>}
    \cup {WithIds(k) : k \in [1..1 -> BotRowKinds]}
    \cup {WithIds(k) : k \in [1..2 -> BotRowKinds]}
    \cup {WithIds([i \in 1..(ListShown + 1) |-> [start |-> Today, gear |-> None, sport |-> "Run"]])}

\* the chats that talk to the bot
Chats == {7, 8}

\* the service of the bot (its own StravaService, line 30), no call made
InitBotService ==
    /\ access_token = "a0"
    /\ refresh_token = "r0"
    /\ token_file = NoFile
    /\ settings_tokens = [a |-> "a0", r |-> "r0", e |-> expires_at]
    /\ InitIdleService
    /\ now = 10030
    /\ streams = <<>>

\* the bot and its commands: any state file, with and without a token, with
\* and without the cleanup
InitBot ==
    /\ expires_at = 20000
    /\ InitBotService
    /\ backend = <<>>
    /\ faults = 0
    /\ \E file \in StateFiles, token_ok \in BOOLEAN, cleanup \in BOOLEAN :
          bot = NewBot(file, token_ok, cleanup)

NextBot ==
    \/ initialize
    \/ \E chat \in Chats, save \in StateSaveOutcomes : start(chat, save)
    \/ \E chat \in Chats, a \in ScheduleArgs, save \in StateSaveOutcomes :
          schedule_command(chat, a, save)
    \/ \E chat \in Chats, save \in StateSaveOutcomes : stop_command(chat, save)

SpecBot == InitBot /\ [][NextBot]_vars

\* the state files of a bot whose daily check is scheduled, with and without
\* a chat id
CheckStateFiles ==
    {[st |-> "ok", state |-> [chat_id |-> c, schedule_time |-> Some(FormatTime(20, 0))]] :
        c \in {0, 7}}

\* the bot and its checks, manual and scheduled, over the lists of BotBackends
InitCheck ==
    /\ backend \in BotBackends
    /\ expires_at \in (IF Len(backend) = 0 THEN {0, 20000} ELSE {20000})
    /\ InitBotService
    /\ faults = (IF Len(backend) <= 1 THEN MaxListFaults ELSE 0)
    /\ \E file \in CheckStateFiles : bot = NewBot(file, TRUE, TRUE)

NextCheck ==
    \/ initialize
    \/ \E chat \in Chats : check_command(chat)
    \/ scheduled_check
    \/ check_done
    \/ get_activities_page
    \/ get_activities_gear
    \/ \E o \in TokenResponses : EnsureRefreshResponse(o)
    \/ \E r \in ApiAnswers : FirstResponse(r.status, r.body)
    \/ \E o \in TokenResponses : Refresh401Response(o)
    \/ \E r \in ApiAnswers : RetryResponse(r.status, r.body)

\* a check in flight goes on: every request is answered or times out, and
\* the event loop resumes the coroutine after each answer
CheckProgress ==
    \/ check_done
    \/ get_activities_page
    \/ get_activities_gear
    \/ \E o \in TokenResponses : EnsureRefreshResponse(o)
    \/ \E r \in ApiAnswers : FirstResponse(r.status, r.body)
    \/ \E o \in TokenResponses : Refresh401Response(o)
    \/ \E r \in ApiAnswers : RetryResponse(r.status, r.body)

SpecCheck == InitCheck /\ [][NextCheck]_vars /\ WF_vars(CheckProgress)

(***************************************************************************)
(* download_gpx calls, one after the other, against the streams upstream   *)
(* holds.                                                                  *)
(***************************************************************************)
InitGpx ==
    /\ access_token = "a0"
    /\ refresh_token = "r0"
    /\ streams \in {[id \in ActivityIds |-> IF id = 1 THEN b ELSE FullBundle] :
                        b \in StreamBundles}
    /\ expires_at \in (IF streams[1] = FullBundle THEN {0, 20000} ELSE {20000})
    /\ token_file = NoFile
    /\ settings_tokens = [a |-> "a0", r |-> "r0", e |-> expires_at]
    /\ InitIdle
    /\ backend = <<>>
    /\ faults = (IF streams[1] \in PlainBundles THEN MaxGpxFaults ELSE 0)
    /\ now = 10030

NextGpx ==
    \/ \E c \in GpxCallsFor(streams) : download_gpx(c.id, c.dir, c.name)
    \/ download_gpx_activity
    \/ download_gpx_streams
    \/ crash_during_write
    \/ next_call
    \/ \E o \in TokenResponses : EnsureRefreshResponse(o)
    \/ \E r \in ApiAnswers : FirstResponse(r.status, r.body)
    \/ \E o \in TokenResponses : Refresh401Response(o)
    \/ \E r \in ApiAnswers : RetryResponse(r.status, r.body)

SpecGpx == InitGpx /\ [][NextGpx]_vars

(***************************************************************************)
(* download_gpx calls as tasks of one event loop, and the cleanup job of   *)
(* the bot's scheduler, over one file system.                              *)
(***************************************************************************)
\* a cleanup that empties the files instead of unlinking them
CleanupFilesTruncating(files, storage_path, kept) ==
    [p \in DOMAIN files |->
        IF p.dir # storage_path \/ p \in kept THEN files[p]
        ELSE [st |-> "truncated", gpx |-> <<>>, xml |-> <<>>]]

\* cleanup_all_gpx_files (gpx_cleanup.py lines 27-92): every *.gpx of the
\* storage directory is unlinked; a file whose unlink fails is kept
CleanupFiles(files, storage_path, kept) ==
    [p \in {q \in DOMAIN files : q.dir # storage_path \/ q \in kept} |-> files[p]]

\* the gpx_cleanup job fires (bot_service.py lines 341-355): it runs from
\* start to end without an await
cleanup_gpx_job ==
    /\ bot.application
    /\ \E j \in bot.jobs : j.id = "gpx_cleanup"
    /\ \E kept \in SUBSET {q \in DOMAIN gpx_files : q.dir = GpxStoragePath} :
          /\ faults >= (IF kept = {} THEN 0 ELSE 1)
          /\ faults' = faults - (IF kept = {} THEN 0 ELSE 1)
          /\ gpx_files' = CleanupFiles(gpx_files, GpxStoragePath, kept)
    /\ UNCHANGED <<tokenVars, gear_cache, now, backend, gear_names, streams, suspended, bot,
                   rpc, rkind, rparams, rhdr, rres, rlog, rbodies, opVars>>

\* two activities whose names make the same file name, and a call that
\* saves elsewhere
SharedCalls ==
    {PlainCall, [id |-> 2, dir |-> None, name |-> Nothing],
     [id |-> 1, dir |-> "exports", name |-> Nothing]}

InitShared ==
    /\ access_token = "a0"
    /\ refresh_token = "r0"
    /\ streams = [id \in ActivityIds |-> FullBundle]
    /\ expires_at = 20000
    /\ token_file = NoFile
    /\ settings_tokens = [a |-> "a0", r |-> "r0", e |-> expires_at]
    /\ InitIdle
    /\ backend = <<>>
    /\ faults \in 0..MaxGpxFaults
    /\ now = 10030

NextShared ==
    \/ \E c \in SharedCalls : download_gpx(c.id, c.dir, c.name)
    \/ download_gpx_activity
    \/ download_gpx_streams
    \/ switch_task
    \/ initialize
    \/ cleanup_gpx_job
    \/ \E r \in ApiAnswers : FirstResponse(r.status, r.body)
    \/ \E o \in TokenResponses : Refresh401Response(o)
    \/ \E r \in ApiAnswers : RetryResponse(r.status, r.body)

SpecShared == InitShared /\ [][NextShared]_vars

(***************************************************************************)
(* Properties of _make_request, over the wire log of the call in flight.   *)
(***************************************************************************)
\* the events after the first event e of a log
RECURSIVE AfterFirst(_, _)
AfterFirst(log, e) ==
    IF log = <<>> THEN <<>>
    ELSE IF Head(log).ev = e THEN Tail(log) ELSE AfterFirst(Tail(log), e)

RECURSIVE CountEvVal(_, _, _)
CountEvVal(log, e, v) ==
    IF log = <<>> THEN 0
    ELSE (IF Head(log) = Ev(e, v) THEN 1 ELSE 0) + CountEvVal(Tail(log), e, v)

Last(seq) == seq[Len(seq)]

\* the call has left _make_request (and its caller may have taken the result)
RequestOver == rpc \in {"finished", "idle"}

Responses == ValuesOf(rlog, "resp")
SentTokens == ValuesOf(rlog, "api")
FirstIs(status) == Responses # <<>> /\ Responses[1] = status
\* what happened after the first response arrived
AfterFirstResponse == AfterFirst(rlog, "resp")

\* C5: when the first attempt got a 401, the refresh succeeded and the retry
\* succeeded, _make_request returns the body of the retried response, and the
\* retried request carried the access token most recently obtained from the
\* token endpoint.
C5_RetryReturnsRetriedDataWithNewToken ==
    (rpc = "finished" /\ Responses = <<"401", "ok">>)
        => /\ rres = Returned(rbodies[2])
           /\ Len(SentTokens) = 2
           /\ ValuesOf(rlog, "newtok") # <<>>
           /\ SentTokens[2] = Last(ValuesOf(rlog, "newtok"))

\* a 401, a successful refresh and a successful retry whose token differs from
\* the token of the first attempt
C5_Witness ==
    /\ pc = "done"
    /\ Responses = <<"401", "ok">>
    /\ outcome.kind = "data"
    /\ outcome.data = rbodies[2]
    /\ SentTokens[1] # SentTokens[2]

\* the refresh of the 401 handler failed: no refresh token to try with, or the
\* token endpoint answered with an error or without one of the three keys
HandlerRefreshFailed ==
    /\ FirstIs("401")
    /\ \/ (RequestOver /\ CountEv(AfterFirstResponse, "token") = 0)
       \/ /\ CountEv(AfterFirstResponse, "tresp") >= 1
          /\ ValuesOf(AfterFirstResponse, "tresp")[1] \in {"status", "network", "malformed"}

C7_Original_ExactlyOneTokenContact ==
    (rpc = "finished" /\ FirstIs("401")) => CountEv(rlog, "token") = 1

\* C7 as amended: in a call whose first response was a 401 the 401 handler
\* contacts the token endpoint at most once, and only with a refresh token
\* stored; _ensure_valid_token contacts it at most once before the first
\* attempt and at most once before the retry; so at most three times over the
\* whole call.
C7_TokenContactsBounded ==
    FirstIs("401")
        => /\ CountEvVal(rlog, "token", "handler") <= 1
           /\ rpc = "refresh401" => refresh_token # ""
           /\ (RequestOver /\ AfterFirstResponse = <<>>) => refresh_token = ""
           /\ CountEvVal(AfterFirstResponse, "token", "ensure") <= 1
           /\ CountEv(rlog, "token") - CountEv(AfterFirstResponse, "token") <= 1
           /\ CountEv(rlog, "token") <= 3

\* three contacts in one call: before the first attempt, in the 401 handler and
\* before the retry
C7_Witness ==
    /\ pc = "done"
    /\ FirstIs("401")
    /\ CountEv(rlog, "token") = 3
    /\ CountEvVal(rlog, "token", "handler") = 1

\* C8: one _make_request call sends the API request at most twice.
C8_AtMostTwoSends ==
    /\ CountEv(rlog, "api") <= 2
    /\ CountEv(rlog, "resp") <= 2
    /\ (rpc = "finished" /\ Responses # <<>> /\ Responses[1] # "401")
          => CountEv(rlog, "api") = 1

\* a second 401, on the retry, ends the call
C8_Witness ==
    /\ pc = "done"
    /\ Responses = <<"401", "401">>
    /\ CountEv(rlog, "api") = 2

\* C9: whenever _make_request ends on a failed response of the API (a non-2xx
\* status or a network error, on the first attempt or on the retry), it ends
\* with a StravaAPIError.
C9_OnlyStravaAPIError ==
    (rpc = "finished" /\ rlog # <<>> /\ Last(rlog).ev = "resp" /\ Last(rlog).v # "ok")
        => rres.kind = "StravaAPIError"

\* C10: when the first attempt fails at the network level the call raises
\* StravaAPIError at once: nothing is sent after the failure, neither to the
\* token endpoint nor to the API.
C10_NetworkErrorRaisesAtOnce ==
    FirstIs("network")
        => /\ RequestOver
           /\ rres = Raised("StravaAPIError")
           /\ AfterFirstResponse = <<>>
           /\ CountEv(rlog, "api") = 1

C10_Witness ==
    /\ pc = "done"
    /\ Responses = <<"network">>
    /\ outcome = Raised("StravaAPIError")

\* the _save_tokens calls after the first response, by their outcome
SavesAfterFirstResponse == ValuesOf(AfterFirstResponse, "save")

\* C11: when the first attempt got a 401 and the request was sent again, the
\* write of the new triple to the token file was attempted after the 401 and
\* before the retry went out; when that write succeeded (and nothing refreshed
\* the token again) the file holds the triple of the service, whose access
\* token is the one the retry carried.
C11_PersistBeforeRetry ==
    (FirstIs("401") /\ CountEv(rlog, "api") = 2)
        => /\ SavesAfterFirstResponse # <<>>
           /\ CountEv(AfterFirst(AfterFirstResponse, "save"), "api") = 1
           /\ (/\ SavesAfterFirstResponse = <<"ok">>
               /\ CountEvVal(AfterFirstResponse, "token", "ensure") = 0)
                  => /\ token_file = [st |-> "ok", a |-> access_token,
                                      r |-> refresh_token, e |-> expires_at]
                     /\ token_file.a = SentTokens[2]

\* the retry is on the wire with a token that is already in the token file
C11_Witness ==
    /\ rpc = "sent2"
    /\ FirstIs("401")
    /\ SavesAfterFirstResponse = <<"ok">>
    /\ token_file.st = "ok"
    /\ token_file.a = SentTokens[2]
    /\ SentTokens[2] # SentTokens[1]

\* C12: when the first attempt got a 401, the token endpoint answered the
\* handler's refresh with a full triple and _save_tokens then failed (making
\* the directory, opening the file or writing it), the request is still sent
\* a second time, with the new access token.
C12_SaveFailureStillRetries ==
    (/\ RequestOver
     /\ FirstIs("401")
     /\ SavesAfterFirstResponse # <<>>
     /\ SavesAfterFirstResponse[1] # "ok"
     /\ CountEvVal(AfterFirstResponse, "token", "ensure") = 0)
        => /\ CountEv(rlog, "api") = 2
           /\ SentTokens[2] = Last(ValuesOf(rlog, "newtok"))

(***************************************************************************)
(* Properties of get_activities.                                           *)
(***************************************************************************)
ReturnedList == pc = "done" /\ outcome.kind = "data"

\* every page was fetched: the call is looking up gear or has returned
FetchComplete == pc = "gear" \/ ReturnedList

\* C1: the list get_activities returns is ordered by start date, latest first,
\* for every filter, every all_pages and every order of the upstream rows.
C1_ResultSortedNewestFirst ==
    ReturnedList
        => \A i \in 1..(Len(outcome.data) - 1) :
              outcome.data[i].start >= outcome.data[i + 1].start

\* upstream served the older activity first and the result has them swapped
C1_Witness ==
    /\ ReturnedList
    /\ Len(backend) >= 2
    /\ backend[1].start < backend[2].start
    /\ Len(outcome.data) >= 2
    /\ outcome.data[1].id = 2
    /\ outcome.data[2].id = 1

\* C2: with has_gear=false every returned activity has a null gear_id, with
\* has_gear=true every returned activity has a gear_id.
C2_HasGearFilterHolds ==
    (ReturnedList /\ IsSome(args.filter) /\ IsSome(Val(args.filter).has_gear))
        => \A i \in 1..Len(outcome.data) :
              (outcome.data[i].gear # None) = Val(Val(args.filter).has_gear)

\* has_gear=false kept a gearless activity and dropped one with gear
C2_Witness ==
    /\ ReturnedList
    /\ IsSome(args.filter)
    /\ Val(args.filter).has_gear = Some(FALSE)
    /\ Len(outcome.data) = 1
    /\ outcome.data[1].gear = None
    /\ \E i \in 1..Len(backend) : backend[i].gear # None

\* C3: with all_pages=True the page requests are pages 1, 2, 3, ... with
\* per_page=200; when the fetch is complete there were floor(N/200)+1 of them
\* for the N activities upstream holds, and the merged rows are those N rows in
\* order.
C3_AllPagesFetchesEveryPage ==
    (pc # "idle" /\ args.all_pages)
        => /\ \A i \in 1..Len(pageReqs) :
                 /\ pageReqs[i].page = Some(i)
                 /\ pageReqs[i].per_page = Some(MaxPerPage)
           /\ Len(pageReqs) <= (Len(backend) \div MaxPerPage) + 1
           /\ FetchComplete
                 => /\ Len(pageReqs) = (Len(backend) \div MaxPerPage) + 1
                    /\ loc.data = backend

\* 250 activities: a page of 200, a page of 50, two requests
C3_Witness ==
    /\ ReturnedList
    /\ args.all_pages
    /\ Len(backend) = 250
    /\ Len(pageReqs) = 2
    /\ Len(loc.data) = 250
    /\ Len(outcome.data) = 250

\* C4: with all_pages=False there is exactly one activity list request, and it
\* carries the page and per_page of the caller's filter.
C4_SinglePageRequest ==
    (pc # "idle" /\ ~args.all_pages)
        => /\ Len(pageReqs) = 1
           /\ IsSome(args.filter)
                 => /\ pageReqs[1].page = Some(Val(args.filter).page)
                    /\ pageReqs[1].per_page = Some(Val(args.filter).per_page)

\* page 2 of one row per page: the second row upstream holds
C4_Witness ==
    /\ ReturnedList
    /\ ~args.all_pages
    /\ IsSome(args.filter)
    /\ Val(args.filter).page = 2
    /\ Val(args.filter).per_page = 1
    /\ Len(pageReqs) = 1
    /\ Len(outcome.data) = 1
    /\ outcome.data[1].id = 2

(***************************************************************************)
(* Properties of the gear cache over a sequence of operations.             *)
(***************************************************************************)
\* a get_activities call is over
ActivitiesCallOver == pc = "done" /\ args.op = "get_activities"

\* the ids whose lookup failed in the operation in flight
FailedGearIds == {gearReqs[i].id : i \in {j \in 1..Len(gearReqs) : gearReqs[j].res = "failed"}}

\* the ids looked up in the operation in flight
RequestedGearIds == {gearReqs[i].id : i \in 1..Len(gearReqs)}

IdsOf(acts) == {acts[i].id : i \in 1..Len(acts)}

\* C13: when gear lookups of a get_activities call failed, the call returns
\* all the same, with exactly the fetched activities that pass the filters;
\* the activities of the failed gear ids have no gear_name, and the failed ids
\* are not in the gear cache.
C13_GearFailureNeverRaises ==
    /\ (args.op = "get_activities" /\ pc \in {"gear", "done"})
          => \A g \in FailedGearIds : g \notin DOMAIN gear_cache
    /\ (ActivitiesCallOver /\ FailedGearIds # {})
          => /\ outcome.kind = "data"
             /\ Len(outcome.data) = Cardinality(IdsOf(outcome.data))
             /\ IdsOf(outcome.data) = IdsOf(ApplyFilters(loc.activities, args.filter))
             /\ \A i \in 1..Len(outcome.data) :
                   outcome.data[i].gear \in FailedGearIds
                       => outcome.data[i].gear_name = None

\* one lookup failed and one succeeded: both activities are returned, one
\* without and one with its gear name
C13_Witness ==
    /\ ActivitiesCallOver
    /\ Len(gearReqs) = 2
    /\ Cardinality(FailedGearIds) = 1
    /\ outcome.kind = "data"
    /\ Len(outcome.data) = 2
    /\ \E i, j \in 1..2 :
          /\ outcome.data[i].gear \in FailedGearIds
          /\ outcome.data[i].gear_name = None
          /\ outcome.data[j].gear_name \notin {None, "unknown"}

\* C14: in every get_activities call of the sequence, each gear lookup is for
\* the gear id of a fetched activity that was not cached when the lookup was
\* issued, no id is looked up twice in the call, and when the call returns
\* the ids looked up are exactly the gear ids of the fetched activities that
\* were not cached when the call started: none when there is no such id.
C14_LookupsOnlyForUncachedIds ==
    args.op = "get_activities"
        => /\ \A i \in 1..Len(gearReqs) :
                 /\ \E k \in 1..Len(loc.activities) : loc.activities[k].gear = gearReqs[i].id
                 /\ ~gearReqs[i].hit
                 /\ gearReqs[i].id \notin DOMAIN cache0
           /\ Cardinality(RequestedGearIds) = Len(gearReqs)
           /\ (pc = "done" /\ outcome.kind = "data")
                 => RequestedGearIds = MissingGearIds(loc.activities, cache0)
           /\ MissingGearIds(loc.activities, cache0) = {} => gearReqs = <<>>

\* a later call that fetched activities of a cached gear and of an uncached
\* one, and looked up the uncached one only
C14_Witness ==
    /\ ActivitiesCallOver
    /\ Len(oplog) = 2
    /\ oplog[1].op = "get_activities"
    /\ DOMAIN cache0 = {"g1"}
    /\ \E k \in 1..Len(loc.activities) : loc.activities[k].gear = "g1"
    /\ Len(gearReqs) = 1
    /\ gearReqs[1].id = "g2"

C16_GearNameFromCache ==
    (ActivitiesCallOver /\ outcome.kind = "data")
        => \A i \in 1..Len(outcome.data) :
              outcome.data[i].gear_name # None
                  => /\ outcome.data[i].gear # None
                     /\ outcome.data[i].gear \in DOMAIN gear_cache
                     /\ outcome.data[i].gear_name = gear_cache[outcome.data[i].gear]

\* a named activity next to one without gear and without name
C16_Witness ==
    /\ ActivitiesCallOver
    /\ outcome.kind = "data"
    /\ Len(outcome.data) = 2
    /\ "g1" \in DOMAIN gear_cache
    /\ \E i, j \in 1..2 :
          /\ outcome.data[i].gear = "g1"
          /\ outcome.data[i].gear_name = gear_cache["g1"]
          /\ outcome.data[j].gear = None
          /\ outcome.data[j].gear_name = None

\* the last request of the call was a page request and it failed
PageRequestFailed == ActivitiesCallOver /\ rkind = "activities" /\ rres.kind # "data"

\* C17: when a page request of get_activities fails, the call raises the
\* error of that request, it has looked up no gear, and the gear cache is as
\* it was when the call started.
C17_PageFailureDiscardsAll ==
    PageRequestFailed
        => /\ outcome = rres
           /\ outcome.kind # "data"
           /\ gearReqs = <<>>
           /\ gear_cache = cache0

\* the second page failed after a full first page was fetched, on a service
\* whose cache an earlier call had filled
C17_Witness ==
    /\ PageRequestFailed
    /\ args.all_pages
    /\ Len(pageReqs) = 2
    /\ Len(loc.data) = MaxPerPage
    /\ cache0 # <<>>
    /\ outcome.kind = "StravaAPIError"

(***************************************************************************)
(* Properties of download_gpx over a sequence of calls.                    *)
(***************************************************************************)
IsGpx(k) == oplog[k].op = "download_gpx"

SameGpxArgs(i, j) ==
    /\ oplog[i].id = oplog[j].id
    /\ oplog[i].name = oplog[j].name
    /\ oplog[i].dir = oplog[j].dir

\* C18: after a download_gpx call that fetched the streams, wrote the file
\* and returned its path, a later call with the same activity id, display
\* name and save directory asks for no streams, returns the same path (when
\* it gets as far as the existence check: the activity request that comes
\* first may fail), and the file is still the one the first call wrote.
C18_SecondCallHitsCache ==
    \A i, j \in 1..Len(oplog) :
        (/\ i < j
         /\ IsGpx(i) /\ IsGpx(j)
         /\ SameGpxArgs(i, j)
         /\ oplog[i].res.kind = "data"
         /\ oplog[i].fetched)
            => /\ ~oplog[j].fetched
               /\ oplog[j].res.kind = "data" => oplog[j].res = oplog[i].res
               /\ oplog[j].res.kind # "data" => oplog[j].path = Nothing
               /\ oplog[i].res.data \in DOMAIN gpx_files
               /\ Some(gpx_files[oplog[i].res.data]) = oplog[i].file

\* two calls with the same arguments, the second answered from the file
C18_Witness ==
    /\ Len(oplog) = 2
    /\ IsGpx(1) /\ IsGpx(2)
    /\ SameGpxArgs(1, 2)
    /\ oplog[1].fetched
    /\ oplog[1].res.kind = "data"
    /\ oplog[2].res = oplog[1].res
    /\ ~oplog[2].fetched
    /\ oplog[2].file = oplog[1].file
    /\ IsSome(oplog[1].file)
    /\ Val(oplog[1].file).st = "ok"

\* the call received streams without positions
NoGps(k) == IsGpx(k) /\ IsSome(oplog[k].got) /\ "latlng" \notin DOMAIN Val(oplog[k].got)

\* C19: a download_gpx call that receives a stream bundle without latlng
\* raises StravaAPIError, whatever other streams the bundle has, and leaves no
\* file at the derived path; the next call that derives the same path asks
\* for the streams again.
C19_NoLatLngRaisesAndLeavesNoFile ==
    \A k \in 1..Len(oplog) :
        NoGps(k)
            => /\ oplog[k].res = Raised("StravaAPIError")
               /\ oplog[k].file = Nothing
               /\ \A j \in (k + 1)..Len(oplog) :
                     (/\ IsGpx(j)
                      /\ oplog[j].path = oplog[k].path
                      /\ \A m \in (k + 1)..(j - 1) : oplog[m].path # oplog[k].path)
                         => oplog[j].fetched

\* streams without positions but with others: the error, no file, and the
\* streams asked for again by the next call
C19_Witness ==
    /\ Len(oplog) = 2
    /\ NoGps(1)
    /\ DOMAIN Val(oplog[1].got) # {}
    /\ oplog[1].res = Raised("StravaAPIError")
    /\ DOMAIN gpx_files = {}
    /\ IsGpx(2)
    /\ oplog[2].path = oplog[1].path
    /\ oplog[2].fetched

\* the documents written in full, by path
WrittenPaths == {p \in DOMAIN gpx_files : gpx_files[p].st = "ok"}
TrackOf(p) == gpx_files[p].gpx[1]
\* the positions upstream holds for the activity a document was made from
LatLngOf(p) == streams[TrackOf(p).description]["latlng"].data

\* C20: every document download_gpx writes has one track with one segment,
\* with as many points as the latlng stream has samples, point i holding the
\* latitude and the longitude of sample i, whatever the lengths of the other
\* streams.
C20_TrackMirrorsLatLng ==
    \A p \in WrittenPaths :
        /\ Len(TrackOf(p).tracks) = 1
        /\ Len(TrackOf(p).tracks[1].segments) = 1
        /\ LET points == TrackOf(p).tracks[1].segments[1].points
           IN  /\ Len(points) = Len(LatLngOf(p))
               /\ \A i \in 1..Len(points) :
                     /\ points[i].latitude = LatLngOf(p)[i][1]
                     /\ points[i].longitude = LatLngOf(p)[i][2]

\* a track of all the positions although the time stream is a sample short
\* and the altitude stream a sample long
C20_Witness ==
    \E p \in WrittenPaths :
        LET points == TrackOf(p).tracks[1].segments[1].points
            s == streams[TrackOf(p).description]
        IN  /\ Len(points) = MaxPoints
            /\ "time" \in DOMAIN s
            /\ Len(s["time"].data) = MaxPoints - 1
            /\ "altitude" \in DOMAIN s
            /\ Len(s["altitude"].data) = MaxPoints + 1
            /\ points[MaxPoints].time = Nothing
            /\ points[MaxPoints].latitude = Sample("latlng", MaxPoints)[1]
            /\ points[1].longitude = Sample("latlng", 1)[2]

\* the points of a document and the streams upstream holds for its activity
PointsOf(p) == TrackOf(p).tracks[1].segments[1].points
StreamsOf(p) == streams[TrackOf(p).description]
StreamLen(p, key) == Len(StreamData(StreamsOf(p), key))

\* C21: in every document written, point i has an extension block exactly
\* when i is within the heartrate stream or within the cadence stream; the
\* block has an hr element exactly when i is within the heartrate stream and
\* a cad element exactly when i is within the cadence stream.
C21_ExtensionIffSample ==
    \A p \in WrittenPaths :
        \A i \in 1..Len(PointsOf(p)) :
            LET ext == PointsOf(p)[i].extensions
                inHr == i <= StreamLen(p, "heartrate")
                inCad == i <= StreamLen(p, "cadence")
            IN  /\ Len(ext) <= 1
                /\ (ext # <<>>) <=> (inHr \/ inCad)
                /\ ext # <<>> =>
                      /\ IsSome(ext[1].hr) <=> inHr
                      /\ IsSome(ext[1].cad) <=> inCad
                      /\ inHr => ext[1].hr = Some(Str(Sample("heartrate", i)))
                      /\ inCad => ext[1].cad = Some(Str(Sample("cadence", i)))

\* a track whose first point has both elements and whose last point has the
\* cadence alone, the heartrate stream being a sample short
C21_Witness ==
    \E p \in WrittenPaths :
        /\ Len(PointsOf(p)) = MaxPoints
        /\ StreamLen(p, "heartrate") = MaxPoints - 1
        /\ StreamLen(p, "cadence") = MaxPoints + 1
        /\ PointsOf(p)[MaxPoints].extensions # <<>>
        /\ PointsOf(p)[MaxPoints].extensions[1].hr = Nothing
        /\ IsSome(PointsOf(p)[MaxPoints].extensions[1].cad)
        /\ IsSome(PointsOf(p)[1].extensions[1].hr)

\* the start date upstream holds for the activity a document was made from
StartOf(p) == UpstreamActivity(TrackOf(p).description).start

\* the call received streams with positions
GotGps(k) == IsGpx(k) /\ IsSome(oplog[k].got) /\ "latlng" \in DOMAIN Val(oplog[k].got)

\* C22: in every document written, point i carries the start date of the
\* activity plus times[i] seconds when i is within the time stream and no
\* timestamp otherwise, altitudes[i] when i is within the altitude stream and
\* no elevation otherwise; a call that received positions ends with the path
\* of the document, whatever the time and altitude streams, unless the file
\* system refuses the file (or the process dies before the call ends).
C22_TimeAndElevationByIndex ==
    /\ \A p \in WrittenPaths :
          \A i \in 1..Len(PointsOf(p)) :
              /\ PointsOf(p)[i].time =
                    (IF i <= StreamLen(p, "time")
                     THEN Some(StartOf(p) + StreamsOf(p)["time"].data[i]) ELSE Nothing)
              /\ PointsOf(p)[i].elevation =
                    (IF i <= StreamLen(p, "altitude")
                     THEN Some(StreamsOf(p)["altitude"].data[i]) ELSE Nothing)
    /\ \A k \in 1..Len(oplog) :
          (GotGps(k) /\ oplog[k].res # Raised("Crash"))
              => /\ oplog[k].res \in {Returned(Val(oplog[k].path)), Raised("OSError")}
                 /\ oplog[k].res.kind = "data"
                       => /\ IsSome(oplog[k].file)
                          /\ Val(oplog[k].file).st = "ok"
                          /\ Len(Val(oplog[k].file).gpx[1].tracks[1].segments[1].points)
                                = Len(Val(oplog[k].got)["latlng"].data)

\* a document of an activity without altitude stream and with a time stream
\* a sample short: the first point has its timestamp, the last one has none,
\* and no point has an elevation
C22_Witness ==
    /\ Len(oplog) >= 1
    /\ GotGps(1)
    /\ oplog[1].res.kind = "data"
    /\ \E p \in WrittenPaths :
          /\ Len(PointsOf(p)) = MaxPoints
          /\ "altitude" \notin DOMAIN StreamsOf(p)
          /\ StreamLen(p, "time") = MaxPoints - 1
          /\ PointsOf(p)[1].time = Some(StartOf(p) + Sample("time", 1))
          /\ PointsOf(p)[MaxPoints].time = Nothing
          /\ PointsOf(p)[1].elevation = Nothing

(***************************************************************************)
(* Properties of the filters of get_activities.                            *)
(***************************************************************************)
HasAfter == IsSome(args.filter) /\ IsSome(Val(args.filter).after)
\* the after bound and the start of an activity as epoch seconds
AfterEpoch == Timestamp(Val(Val(args.filter).after))
StartEpoch(a) == Timestamp(StartDate(a))

Matches(a, filter) ==
    IsSome(filter)
        => LET f == Val(filter)
           IN  /\ Truthy(f.activity_type) => a.sport = f.activity_type
               /\ IsSome(f.has_gear) => ((a.gear # None) = Val(f.has_gear))
               /\ Truthy(f.gear_id) => a.gear = f.gear_id
               /\ IsSome(f.after) => StartEpoch(a) > Timestamp(Val(f.after))

Unnamed(a) == [a EXCEPT !.gear_name = None]

\* C29: the list get_activities returns holds exactly the fetched activities
\* that pass all the predicates the filter sets (sport type, gear presence,
\* gear id, start after the bound), each of them once, and nothing that was
\* not fetched.
C29_ResultIsFilteredFetch ==
    ReturnedList
        => /\ Len(outcome.data) = Cardinality(IdsOf(outcome.data))
           /\ IdsOf(outcome.data) =
                 {loc.activities[k].id :
                     k \in {j \in 1..Len(loc.activities) : Matches(loc.activities[j], args.filter)}}
           /\ {Unnamed(outcome.data[i]) : i \in 1..Len(outcome.data)}
                 \subseteq {loc.activities[k] : k \in 1..Len(loc.activities)}

\* all four predicates set: of two fetched activities the one that passes
\* them all is returned
C29_Witness ==
    /\ ReturnedList
    /\ IsSome(args.filter)
    /\ Val(args.filter).activity_type = "Run"
    /\ Val(args.filter).has_gear = Some(TRUE)
    /\ Val(args.filter).gear_id = "g1"
    /\ HasAfter
    /\ Len(loc.activities) = 2
    /\ Len(outcome.data) = 1
    /\ \E k \in 1..2 :
          /\ loc.activities[k].sport = "Run"
          /\ loc.activities[k].gear = "g2"
          /\ loc.activities[k].id # outcome.data[1].id

(***************************************************************************)
(* Termination of the all_pages loop.                                      *)
(***************************************************************************)
\* the all_pages loop is running
PagingAll == pc = "paging" /\ args.all_pages

\* the loop is over: the call is looking up gear, has returned or has raised
PagingOver == pc \in {"gear", "done"}

\* the page number of the k-th page request
PageOf(reqs, k) == Val(reqs[k].page)

\* C30: with all_pages=True, against a finite list and with every request
\* answered, the paging loop ends, and the call ends with a list or an error;
\* each iteration asks for the page after the one asked before, and no page
\* is asked for twice.
C30_PagingLoopEnds ==
    /\ PagingAll ~> PagingOver
    /\ PagingAll ~> (pc = "done" /\ outcome.kind # None)
    /\ [][(args'.all_pages /\ pageReqs' # pageReqs /\ pageReqs # <<>> /\ pc = "paging")
              => /\ Len(pageReqs') = Len(pageReqs) + 1
                 /\ PageOf(pageReqs', Len(pageReqs')) = PageOf(pageReqs, Len(pageReqs)) + 1]_vars
    /\ [](args.all_pages
              => \A i, j \in 1..Len(pageReqs) :
                    i # j => PageOf(pageReqs, i) # PageOf(pageReqs, j))

\* 400 activities: pages 1, 2 and 3 were asked for, the third came back empty
\* and the call returned
C30_Witness ==
    /\ ReturnedList
    /\ args.all_pages
    /\ Len(backend) = 400
    /\ Len(pageReqs) = 3
    /\ PageOf(pageReqs, 3) = 3
    /\ Len(outcome.data) > 0

(***************************************************************************)
(* Properties of the statistics summary.                                   *)
(***************************************************************************)
\* the route has answered with a summary; loc.activities is the list it is of
Summarised == pc = "responded" /\ outcome.kind = "data"
TheSummary == outcome.data[1]

\* the sum of f over a set of sport types
RECURSIVE SumOver(_, _)
SumOver(f, S) ==
    IF S = {} THEN 0
    ELSE LET t == CHOOSE x \in S : TRUE IN f[t] + SumOver(f, S \ {t})

\* get_activities has returned the empty list to the route
FetchedEmpty ==
    pc = "done" /\ args.op = "get_activity_stats" /\ outcome = Returned(<<>>)

\* C24: the summary of an empty list of activities has count, distance, time
\* and activities_without_gear 0 and no per-type entry; the route answers with
\* it and does not fail.
C24_EmptyListAllZero ==
    /\ [](FetchedEmpty => ENABLED get_activity_stats_done)
    /\ [][FetchedEmpty =>
            /\ pc' = "responded"
            /\ outcome'.kind = "data"
            /\ outcome'.data[1].total = [count |-> 0, distance_meters |-> 0,
                                         time_seconds |-> 0,
                                         activities_without_gear |-> 0]
            /\ DOMAIN outcome'.data[1].activity_types_count = {}
            /\ DOMAIN outcome'.data[1].activity_types_detailed = {}]_vars

\* an athlete without activities, and an athlete whose activities are all
\* older than the range: both get the all-zero summary
C24_Witness ==
    /\ Summarised
    /\ loc.activities = <<>>
    /\ TheSummary.total.count = 0
    /\ DOMAIN TheSummary.activity_types_detailed = {}
    /\ backend # <<>>

\* the figures of a list, stated apart from the route: numbers added as
\* numbers, without rounding
RECURSIVE ExactDistance(_)
ExactDistance(acts) ==
    IF acts = <<>> THEN 0 ELSE Head(acts).distance + ExactDistance(Tail(acts))
ExactTime(acts) ==
    LET RECURSIVE Upto(_)
        Upto(n) == IF n = 0 THEN 0 ELSE acts[n].moving_time + Upto(n - 1)
    IN  Upto(Len(acts))
Among(acts, t) == {i \in 1..Len(acts) : acts[i].sport = t}

\* no float addition of the summary rounds: every running distance sum, of
\* the list and of each sport type, is a float
RECURSIVE NoRounding(_, _)
NoRounding(acc, acts) ==
    \/ acts = <<>>
    \/ /\ Round(acc + Head(acts).distance) = acc + Head(acts).distance
       /\ NoRounding(acc + Head(acts).distance, Tail(acts))
SumsAreExact(acts) ==
    /\ NoRounding(0, acts)
    /\ \A t \in TypesOf(acts) : NoRounding(0, OfType(acts, t))

\* the part of the statement that holds of every list: counts, times, gearless
\* count, the per-type keys
CountsAndTimesAddUp(acts, sm) ==
    /\ sm.total.count = Len(acts)
    /\ sm.total.time_seconds = ExactTime(acts)
    /\ sm.total.activities_without_gear = Cardinality({i \in 1..Len(acts) : acts[i].gear = None})
    /\ DOMAIN sm.activity_types_detailed = {acts[i].sport : i \in 1..Len(acts)}
    /\ DOMAIN sm.activity_types_count = DOMAIN sm.activity_types_detailed
    /\ \A t \in DOMAIN sm.activity_types_detailed :
          /\ sm.activity_types_detailed[t].count = Cardinality(Among(acts, t))
          /\ sm.activity_types_count[t] = Cardinality(Among(acts, t))
    /\ SumOver(sm.activity_types_count, DOMAIN sm.activity_types_count) = sm.total.count
    /\ SumOver([t \in DOMAIN sm.activity_types_detailed |->
                   sm.activity_types_detailed[t].count],
               DOMAIN sm.activity_types_detailed) = sm.total.count
    /\ SumOver([t \in DOMAIN sm.activity_types_detailed |->
                   sm.activity_types_detailed[t].time_seconds],
               DOMAIN sm.activity_types_detailed) = sm.total.time_seconds

\* the part about distances: the total is the sum over the list, and the
\* per-type distances add up to it
DistancesAddUp(acts, sm) ==
    /\ sm.total.distance_meters = ExactDistance(acts)
    /\ SumOver([t \in DOMAIN sm.activity_types_detailed |->
                   sm.activity_types_detailed[t].distance_meters],
               DOMAIN sm.activity_types_detailed) = sm.total.distance_meters

\* what rounding can take from a sum of n floats: half a unit in the last
\* place of the largest running sum, per addition
WithinRounding(x, exact, n) ==
    /\ 2 * (x - exact) <= n * Scale(exact + n * Scale(exact))
    /\ 2 * (exact - x) <= n * Scale(exact + n * Scale(exact))

\* C25 as stated: for every list the summary has the count, the sums, the
\* gearless count, one per-type entry per distinct sport type, and per-type
\* counts, distances and times that add up to the totals.
C25_Original_AllFiguresAddUp ==
    Summarised => /\ CountsAndTimesAddUp(loc.activities, TheSummary)
                  /\ DistancesAddUp(loc.activities, TheSummary)

\* C25: for every list the summary has the count, the sum of the times, the
\* gearless count, one per-type entry per distinct sport type and no other,
\* and per-type counts and times that add up to the totals; the total distance
\* is the sum of the distances and the per-type distances add up to it when no
\* float addition rounds, and each distance figure is within rounding of the
\* sum it stands for otherwise.
C25_FiguresAddUpToRounding ==
    Summarised =>
        /\ CountsAndTimesAddUp(loc.activities, TheSummary)
        /\ SumsAreExact(loc.activities) => DistancesAddUp(loc.activities, TheSummary)
        /\ WithinRounding(TheSummary.total.distance_meters, ExactDistance(loc.activities),
                          Len(loc.activities))
        /\ \A t \in DOMAIN TheSummary.activity_types_detailed :
              WithinRounding(TheSummary.activity_types_detailed[t].distance_meters,
                             ExactDistance(OfType(loc.activities, t)),
                             Len(OfType(loc.activities, t)))

\* a Run of 1000 m and 300 s and a Ride of 5000 m and 600 s, summarised
C25_Witness ==
    /\ Summarised
    /\ Len(loc.activities) = 2
    /\ \E i, j \in 1..2 :
          /\ loc.activities[i].sport = "Run" /\ loc.activities[i].distance = 1000
          /\ loc.activities[i].moving_time = 300
          /\ loc.activities[j].sport = "Ride" /\ loc.activities[j].distance = 5000
          /\ loc.activities[j].moving_time = 600
    /\ SumsAreExact(loc.activities)
    /\ TheSummary.total = [count |-> 2, distance_meters |-> 6000, time_seconds |-> 900,
                           activities_without_gear |-> 1]
    /\ TheSummary.activity_types_detailed["Run"].count = 1

\* a list whose distance sums round: the per-type distances do not add up to
\* the total
C25_RoundedWitness ==
    /\ Summarised
    /\ ~SumsAreExact(loc.activities)
    /\ ~DistancesAddUp(loc.activities, TheSummary)

(***************************************************************************)
(* A crash while the track file is written.                                *)
(***************************************************************************)
Crashed(k) == IsGpx(k) /\ oplog[k].res = Raised("Crash")

\* C27: a crash while download_gpx writes the track file leaves the truncated
\* file at the derived path; a later download_gpx call that derives the same
\* path asks for no streams, returns the path when it gets as far as the
\* existence check, and the file is still the truncated one.
C27_CrashLeavesTruncatedFile ==
    \A k \in 1..Len(oplog) :
        Crashed(k)
            => /\ IsSome(oplog[k].file)
               /\ Val(oplog[k].file).st = "truncated"
               /\ Val(oplog[k].path) \in DOMAIN gpx_files
               /\ gpx_files[Val(oplog[k].path)].st = "truncated"
               /\ \A j \in (k + 1)..Len(oplog) :
                     (IsGpx(j) /\ oplog[j].path = oplog[k].path)
                        => /\ ~oplog[j].fetched
                           /\ oplog[j].res = Returned(Val(oplog[k].path))
                           /\ oplog[j].file = oplog[k].file
               /\ (args.op = "download_gpx" /\ loc.file_path = oplog[k].path)
                     => pc # "gpx_streams"

\* a crash in the first call, then a call with the same arguments that is
\* answered with the path of the truncated file
C27_Witness ==
    /\ Len(oplog) = 2
    /\ Crashed(1)
    /\ IsGpx(2)
    /\ SameGpxArgs(1, 2)
    /\ oplog[2].res = Returned(Val(oplog[1].path))
    /\ ~oplog[2].fetched
    /\ Val(oplog[2].file).st = "truncated"

(***************************************************************************)
(* Properties of the text of the written documents.                        *)
(***************************************************************************)
TextOf(p) == gpx_files[p].xml
PointsIn(p) == TrackOf(p).tracks[1].segments[1].points

\* the places of a piece of markup in a text
Places(xml, str) == {i \in 1..Len(xml) : xml[i] = str}

\* the root element: the pieces from "<gpx " to the first ">"
RootOf(xml) ==
    LET end == CHOOSE i \in 1..Len(xml) :
                   xml[i] = ">" /\ \A j \in 1..(i - 1) : xml[j] # ">"
    IN  SubSeq(xml, 1, end)

RootDeclaresPrefix(xml) ==
    /\ xml[1] = "<gpx "
    /\ \E i \in 2..(Len(RootOf(xml)) - 1) :
          /\ xml[i] = "xmlns:gpxtpx"
          /\ xml[i + 1] = "=\"http://www.garmin.com/xmlschemas/TrackPointExtension/v1\" "

UnprefixedTags == {OpenTags[TPE_NS, t] : t \in TpeTags} \cup {CloseTags[TPE_NS, t] : t \in TpeTags}

\* every extension block of the track is in the text as a
\* gpxtpx:TrackPointExtension element with the gpxtpx:hr and gpxtpx:cad
\* children of the block, and no element of the text has another prefix
ExtensionsPrefixed(xml, points) ==
    LET opens  == Places(xml, "<gpxtpx:TrackPointExtension>")
        closes == Places(xml, "</gpxtpx:TrackPointExtension>")
        inside(i) == \E o \in opens : o < i /\ \A c \in closes : c < o \/ c > i
        with(f) == {k \in 1..Len(points) : points[k].extensions # <<>>
                                             /\ IsSome(points[k].extensions[1][f])}
    IN  /\ Cardinality(opens) = Cardinality({k \in 1..Len(points) : points[k].extensions # <<>>})
        /\ Cardinality(closes) = Cardinality(opens)
        /\ Cardinality(Places(xml, "<gpxtpx:hr>")) = Cardinality(with("hr"))
        /\ Cardinality(Places(xml, "<gpxtpx:cad>")) = Cardinality(with("cad"))
        /\ \A o \in opens : xml[o + 1] \in {"<gpxtpx:hr>", "<gpxtpx:cad>"}
        /\ \A i \in Places(xml, "<gpxtpx:hr>") \cup Places(xml, "<gpxtpx:cad>") : inside(i)
        /\ \A i \in Places(xml, "<gpxtpx:hr>") : xml[i + 2] = "</gpxtpx:hr>"
        /\ \A i \in Places(xml, "<gpxtpx:cad>") : xml[i + 2] = "</gpxtpx:cad>"
        /\ \A i \in 1..Len(xml) : xml[i] \notin UnprefixedTags

\* C28: in every file written by download_gpx, each heart-rate/cadence
\* extension is a gpxtpx:TrackPointExtension element containing gpxtpx:hr
\* and/or gpxtpx:cad, and the root gpx element declares xmlns:gpxtpx as the
\* TrackPointExtension v1 namespace.
C28_PrefixedAndDeclared ==
    \A p \in WrittenPaths :
        /\ ExtensionsPrefixed(TextOf(p), PointsIn(p))
        /\ RootDeclaresPrefix(TextOf(p))

\* the same, for the files whose name does not hold the text "xmlns:gpxtpx"
C28_DeclaredUnlessNamed ==
    \A p \in WrittenPaths :
        /\ ExtensionsPrefixed(TextOf(p), PointsIn(p))
        /\ ~Contains(TrackOf(p).name, "xmlns:gpxtpx")
              => RootDeclaresPrefix(TextOf(p))

\* a file with heart rate and cadence elements under the gpxtpx prefix and a
\* root element that does not declare the prefix
C28_UndeclaredWitness ==
    \E p \in WrittenPaths :
        /\ Places(TextOf(p), "<gpxtpx:hr>") # {}
        /\ Places(TextOf(p), "<gpxtpx:cad>") # {}
        /\ ~RootDeclaresPrefix(TextOf(p))
        /\ ~Contains(RootOf(TextOf(p)), "xmlns:gpxtpx")

(***************************************************************************)
(* Two interleaved get_activities calls and the gear cache.                *)
(***************************************************************************)
\* the two tasks, the running one first
Tasks == <<RunningFrame, suspended>>

\* the lookups of gear id g by a task that found g missing from the cache
\* when it collected the ids
MissLookups(frame, g) ==
    {k \in 1..Len(frame.gearReqs) : frame.gearReqs[k].id = g /\ ~frame.gearReqs[k].hit}

\* both tasks looked g up after a miss, and both lookups returned name
BothLookedUp(g, name) ==
    \A t \in 1..2 :
        /\ Tasks[t].args.op = "get_activities"
        /\ MissLookups(Tasks[t], g) # {}
        /\ \A k \in MissLookups(Tasks[t], g) : Tasks[t].gearReqs[k].name = name

BothReturned == \A t \in 1..2 : Tasks[t].pc = "done" /\ Tasks[t].outcome.kind = "data"

\* C26: when two interleaved get_activities calls both find the same gear id
\* missing from the cache, both look it up, and the lookups return a name,
\* then however they interleave the cache ends with the entry of that id
\* holding that name and both calls give that name to their activities with
\* that gear; and no step removes a cache entry, or alters one other than by
\* the answer of a lookup for its id.
C26_DuplicateLookupHarmless ==
    /\ [](\A g \in GearIds : \A name \in {"Pegasus", "Roadster", "Renamed"} :
            (BothReturned /\ BothLookedUp(g, name))
               => /\ g \in DOMAIN gear_cache
                  /\ gear_cache[g] = name
                  /\ \A t \in 1..2 : \A i \in 1..Len(Tasks[t].outcome.data) :
                        Tasks[t].outcome.data[i].gear = g
                           => Tasks[t].outcome.data[i].gear_name = name)
    /\ [][\A g \in DOMAIN gear_cache :
            /\ g \in DOMAIN gear_cache'
            /\ gear_cache'[g] # gear_cache[g]
                  => /\ pc = "gear" /\ rparams.gear = g
                     /\ gearReqs'[Len(gearReqs)].name = gear_cache'[g]]_vars

\* both tasks found g1 missing, both looked it up, the second answer came
\* when the first was cached already, and both calls returned
C26_Witness ==
    /\ BothReturned
    /\ BothLookedUp("g1", "Pegasus")
    /\ gear_cache["g1"] = "Pegasus"
    /\ \E t \in 1..2 : Tasks[t].cache0 = <<>> /\ Len(Tasks[t].gearReqs) = 2
    /\ DOMAIN gear_cache = {"g1", "g2"}

(***************************************************************************)
(* Track files of different activities under one name.                     *)
(***************************************************************************)
\* the display name a call goes by: its argument, or the name upstream has
NameUsed(k) ==
    IF IsSome(oplog[k].name) /\ Val(oplog[k].name) # <<>>
    THEN Val(oplog[k].name) ELSE UpstreamActivity(oplog[k].id).name

\* the name with every blank, slash and backslash turned into an underscore
Sanitized(name) ==
    [i \in 1..Len(name) |-> IF name[i] \in {" ", "/", "\\"} THEN "_" ELSE name[i]]

\* the call wrote the track of its activity and returned the path
Wrote(k) == IsGpx(k) /\ oplog[k].fetched /\ oplog[k].res.kind = "data"

\* C31: the path a download_gpx call derives is made of the save directory
\* and the sanitized display name only; after a track was written for one
\* activity, a call for another activity with the same directory and sanitized
\* name returns the path of that file, asks for no streams, and the file still
\* holds the track of the first activity.
C31_SameNameSharesFile ==
    /\ \A k \in 1..Len(oplog) :
          (IsGpx(k) /\ IsSome(oplog[k].path))
             => Val(oplog[k].path) = [dir |-> oplog[k].dir,
                                      file |-> Sanitized(NameUsed(k)) \o <<".gpx">>]
    /\ \A i, j \in 1..Len(oplog) :
          (/\ i < j
           /\ Wrote(i) /\ IsGpx(j)
           /\ oplog[i].id # oplog[j].id
           /\ oplog[i].dir = oplog[j].dir
           /\ Sanitized(NameUsed(i)) = Sanitized(NameUsed(j))
           /\ IsSome(oplog[j].path))
              => /\ oplog[j].res = oplog[i].res
                 /\ ~oplog[j].fetched
                 /\ oplog[j].file = oplog[i].file
                 /\ Val(oplog[j].file).gpx[1].description = oplog[i].id
                 /\ gpx_files[Val(oplog[i].path)] = Val(oplog[i].file)

\* the track of activity 1 ("a b") written, then activity 2 ("a_b") asked
\* for and answered with the file of activity 1
C31_Witness ==
    /\ Len(oplog) = 2
    /\ Wrote(1) /\ IsGpx(2)
    /\ oplog[1].id = 1 /\ oplog[2].id = 2
    /\ NameUsed(1) # NameUsed(2)
    /\ oplog[2].res = oplog[1].res
    /\ ~oplog[2].fetched
    /\ Val(oplog[2].file).gpx[1].description = 1

(***************************************************************************)
(* The jobs of the bot's scheduler.                                        *)
(***************************************************************************)
HasJob(id) == \E j \in bot.jobs : j.id = id

\* C32: when GPX cleanup is enabled and the bot has initialized, the
\* gpx_cleanup job is scheduled in every reachable state, whatever /schedule
\* and /stop commands were received and whether or not a stored schedule
\* time was restored at start-up.
C32_CleanupStaysScheduled ==
    (bot.application /\ bot.cleanup_enabled) => HasJob("gpx_cleanup")

DailyChecks == {j \in bot.jobs : j.id = "daily_check"}

\* the daily check is scheduled exactly when a schedule_time is stored, once,
\* and for the hour and minute that the stored text reads as
DailyCheckAsStored ==
    /\ (DailyChecks # {}) <=> IsSome(bot.state.schedule_time)
    /\ Cardinality(DailyChecks) <= 1
    /\ \A j \in DailyChecks :
          /\ j.hour = ParseStored(Val(bot.state.schedule_time)).hour
          /\ j.minute = ParseStored(Val(bot.state.schedule_time)).minute
          /\ FormatTime(j.hour, j.minute) = Val(bot.state.schedule_time)

C33_AbortedWitness ==
    /\ bot.application /\ bot.torn
    /\ bot.handler = "stop" /\ bot.raised = "OSError"
    /\ bot.state.schedule_time = Nothing
    /\ DailyChecks # {}

(***************************************************************************)
(* /schedule with an argument that is no time.                             *)
(***************************************************************************)
\* the argument is not a valid HH:MM time: a number of parts other than two,
\* a part that is no number, an hour outside 0..23, a minute outside 0..59
NotHHMM(parts) ==
    \/ Len(parts) # 2
    \/ \E i \in 1..Len(parts) : ~parts[i].num
    \/ parts[1].n \notin 0..23
    \/ parts[2].n \notin 0..59

\* the step is a /schedule command with such an argument
InvalidScheduleStep ==
    /\ bot'.handler = "schedule"
    /\ bot'.arg # <<>>
    /\ NotHHMM(bot'.arg[1])

\* C34: a /schedule command whose argument is not a valid HH:MM time replies
\* with an error and leaves the stored schedule_time, the persisted bot
\* state and the set of scheduled jobs unchanged.
C34_InvalidTimeChangesNothing ==
    [][InvalidScheduleStep =>
          /\ Len(bot'.sent) = 1 /\ bot'.sent[1].kind = "invalid_time"
          /\ bot'.raised = None
          /\ bot'.state = bot.state
          /\ bot'.state_file = bot.state_file
          /\ bot'.jobs = bot.jobs]_vars

\* /schedule 24:00 was answered while the daily check of 20:00 was scheduled
C34_Witness ==
    /\ bot.handler = "schedule"
    /\ bot.arg = <<<<Part(24), Part(0)>>>>
    /\ bot.sent # <<>>
    /\ bot.state.schedule_time = Some(FormatTime(20, 0))
    /\ bot.state_file.st = "ok"
    /\ DailyChecks # {}

(***************************************************************************)
(* The messages of a check.                                                *)
(***************************************************************************)
\* the check that ran last has the answer of the service
CheckOver(handler) == bot.handler = handler /\ IsSome(bot.checked)
QueryEmpty == Val(bot.checked).kind = "data" /\ Val(bot.checked).data = <<>>
QueryFound == Val(bot.checked).kind = "data" /\ Val(bot.checked).data # <<>>
QueryFailed == Val(bot.checked).kind # "data"

\* the gearless activities upstream
GearlessIds == {backend[i].id : i \in {j \in 1..Len(backend) : backend[j].gear = None}}

\* one message to the chat that lists gearless activities, ten at most
OneNotification(sent, chat) ==
    /\ Len(sent) = 1
    /\ sent[1].kind = "list" /\ sent[1].to = chat
    /\ sent[1].ids # <<>> /\ Len(sent[1].ids) <= 10
    /\ \A i \in 1..Len(sent[1].ids) : sent[1].ids[i] \in GearlessIds
    /\ Len(sent[1].ids) + sent[1].more = Len(Val(bot.checked).data)

ScheduledCheckMessages ==
    /\ (bot.handler = "scheduled_check" /\ bot.state.chat_id = 0)
          => (bot.sent = <<>> /\ pc = "idle" /\ rlog = <<>>)
    /\ (bot.handler = "scheduled_check" /\ bot.checked = Nothing) => bot.sent = <<>>
    /\ (CheckOver("scheduled_check") /\ QueryEmpty) => bot.sent = <<>>
    /\ (CheckOver("scheduled_check") /\ QueryFound)
          => OneNotification(bot.sent, bot.state.chat_id)

ManualCheckMessages ==
    CheckOver("check_command") =>
        /\ Len(bot.sent) = 2
        /\ bot.sent[1].kind = "checking"
        /\ bot.sent[2].to = bot.sent[1].to
        /\ QueryEmpty => bot.sent[2].kind = "all_good"
        /\ QueryFound => OneNotification(<<bot.sent[2]>>, bot.sent[1].to)
        /\ QueryFailed => bot.sent[2].kind = "error"

\* C35: a scheduled check sends no message when no chat id is stored, and
\* none when the gearless-activity query succeeds with an empty result; it
\* sends exactly one notification when at least one gearless activity is
\* found; a manual /check always ends, with exactly one result message: the
\* all-good message, the list, or the error.
C35_CheckMessages ==
    /\ [](ScheduledCheckMessages /\ ManualCheckMessages)
    /\ (bot.handler = "check_command" /\ bot.checked = Nothing)
          ~> CheckOver("check_command")

\* a scheduled check found eleven gearless activities and sent one message
\* that shows ten of them
C35_Witness ==
    /\ CheckOver("scheduled_check") /\ QueryFound
    /\ Len(bot.sent) = 1
    /\ Len(bot.sent[1].ids) = 10 /\ bot.sent[1].more = 1

\* a scheduled check found nothing and sent nothing
C35_SilentWitness == CheckOver("scheduled_check") /\ QueryEmpty /\ bot.sent = <<>>

\* a scheduled check without a chat id
C35_NoChatWitness ==
    bot.handler = "scheduled_check" /\ bot.state.chat_id = 0 /\ bot.sent = <<>>

\* a manual check ended with the error of the service
C35_ManualErrorWitness ==
    CheckOver("check_command") /\ QueryFailed /\ bot.sent[2].kind = "error"

\* a manual check ended with the all-good message
C35_ManualAllGoodWitness ==
    CheckOver("check_command") /\ QueryEmpty /\ bot.sent[2].kind = "all_good"

(***************************************************************************)
(* The token triple across a refresh.                                      *)
(***************************************************************************)
\* the step is the rest of _refresh_access_token after the answer o of the
\* token endpoint
RefreshAnswered(o) == EnsureRefreshResponse(o) \/ Refresh401Response(o)

\* the triple is that of the answer and the call returned True, or the
\* triple is as it was and the call returned False
AllOrNothing(o) ==
    \/ /\ <<access_token', refresh_token', expires_at'>> = <<o.a, o.r, o.e>>
       /\ RefreshRet(o) = "True"
    \/ /\ <<access_token', refresh_token', expires_at'>>
             = <<access_token, refresh_token, expires_at>>
       /\ RefreshRet(o) = "False"

\* C36: after any call to _refresh_access_token, the triple (access_token,
\* refresh_token, expires_at) is either entirely the new triple of the token
\* response (the call returned True) or entirely unchanged (the call
\* returned False); a failed refresh never leaves a mix of old and new
\* values.
C36_RefreshAllOrNothing ==
    [][\A o \in TokenResponses : RefreshAnswered(o) => AllOrNothing(o)]_vars

\* the same for the answers that carry all three keys and a refresh that
\* returns
C36_CompleteAnswerAllOrNothing ==
    [][\A o \in TokenResponses :
          (RefreshAnswered(o) /\ o.kind # "malformed" /\ RefreshRet(o) # "OSError")
              => AllOrNothing(o)]_vars

\* a refresh returned False and left the new access token beside the old
\* refresh token
C36_MixedWitness ==
    /\ rlog # <<>>
    /\ \E i \in 1..Len(rlog) : rlog[i] = Ev("tresp", "malformed")
    /\ access_token = "a2"
    /\ refresh_token # "r1"

(***************************************************************************)
(* The bearer token of every request.                                      *)
(***************************************************************************)
OnTheWire == rpc \in {"sent1", "sent2"}

\* the token is missing or expires within 3600 seconds of the clock t
MissingOrExpiring(a, e, t) == a = "" \/ e < t + 3600

\* the step sends a request with no answer of the token endpoint just
\* before it
SentWithoutRefresh == rpc \in {"idle", "refresh401"} /\ rpc' \in {"sent1", "sent2"}

C37_RefreshedWitness ==
    /\ OnTheWire
    /\ Len(rlog) >= 3
    /\ rlog[1] = Ev("token", "ensure")
    /\ rlog[Len(rlog)] = Ev("api", access_token)
    /\ access_token \in IssuedAccessTokens

(***************************************************************************)
(* Track files under interleaved calls and cleanup runs.                   *)
(***************************************************************************)
\* the file holds the whole document
CompleteFile(f) == f.st = "ok" /\ f.xml # <<>> /\ f.xml = FixNamespaces(to_xml(f.gpx[1]))

\* call k returned a path
ReturnedPath(k) == oplog[k].op = "download_gpx" /\ oplog[k].res.kind = "data"

\* call k ended with the OSError of its write
WriteFailed(k) ==
    oplog[k].op = "download_gpx" /\ oplog[k].res = Raised("OSError") /\ IsSome(oplog[k].got)

\* every file that exists is complete, and every call that returned a path
\* returned that of a file that was complete when it returned
NoPartialFile ==
    /\ \A p \in DOMAIN gpx_files : CompleteFile(gpx_files[p])
    /\ \A k \in 1..Len(oplog) :
          ReturnedPath(k) => (IsSome(oplog[k].file) /\ CompleteFile(Val(oplog[k].file)))

C38_FailedWriteWitness ==
    /\ Len(oplog) = 2
    /\ WriteFailed(1)
    /\ ReturnedPath(2) /\ ~oplog[2].fetched
    /\ ~CompleteFile(Val(oplog[2].file))

(***************************************************************************)
(* The running listing and its limit.                                      *)
(***************************************************************************)
RunningReturned ==
    pc = "responded" /\ args.op = "get_running_activities" /\ outcome.kind = "data"

IdSeq(acts) == [i \in 1..Len(acts) |-> acts[i].id]

\* the full listing of Run activities, newest first
AllRunsNewestFirst ==
    SortActivities(SelectSeq(ToActivities(backend), LAMBDA a : a.sport = "Run"))

\* its first n items
FirstRuns(n) == SubSeq(AllRunsNewestFirst, 1, Min(n, Len(AllRunsNewestFirst)))

\* the number that "its first limit items" names: the limit, or the whole
\* list when there is no limit
LimitOf(limit) == IF IsSome(limit) THEN Val(limit) ELSE Len(backend)

\* C39: for every limit and every backend content, get_running_activities
\* returns the same list as the full all-pages listing of Run activities
\* sorted newest first cut to its first limit items; the single-page path
\* and the all-pages path give the same answer.
C39_SameAsFullListingCut ==
    RunningReturned => IdSeq(outcome.data) = IdSeq(FirstRuns(LimitOf(args.limit)))

\* the same on the all-pages path with a limit above the page size, or none
C39_AllPagesPathCut ==
    (RunningReturned /\ args.all_pages /\ args.limit # Some(0))
        => IdSeq(outcome.data) = IdSeq(FirstRuns(LimitOf(args.limit)))

\* the single-page path returns the runs among the newest limit activities
\* of any type
C39_SinglePageRunsOfNewest ==
    (RunningReturned /\ ~args.all_pages)
        => IdSeq(outcome.data)
             = IdSeq(SortActivities(SelectSeq(ToActivities(FirstOf(backend, Val(args.limit))),
                                              LAMBDA a : a.sport = "Run")))

\* limit 2 over a ride followed by two runs: one run came back
C39_FewerWitness ==
    /\ RunningReturned
    /\ args.limit = Some(2)
    /\ Len(outcome.data) = 1
    /\ Len(AllRunsNewestFirst) = 2

\* limit 0 brought the whole listing
C39_ZeroWitness ==
    RunningReturned /\ args.limit = Some(0) /\ Len(outcome.data) > 0

(***************************************************************************)
(* The pages of GET /activities.                                           *)
(***************************************************************************)
RouteResponded ==
    pc = "responded" /\ args.op = "get_activities_route" /\ outcome.kind = "data"

\* the least n with n * b >= a
CeilDiv(a, b) == CHOOSE n \in 0..a : n * b >= a /\ (n = 0 \/ (n - 1) * b < a)

\* the pages 1..last of a list, one after the other
RECURSIVE PagesUpTo(_, _, _)
PagesUpTo(acts, last, per_page) ==
    IF last = 0 THEN <<>>
    ELSE PagesUpTo(acts, last - 1, per_page) \o Paginate(acts, last, per_page)

\* the activities upstream that pass the filter of the query
Matching(f) ==
    {backend[i].id : i \in {j \in 1..Len(backend) :
        /\ IsSome(f.has_gear) => ((backend[j].gear # None) = Val(f.has_gear))
        /\ IsSome(f.after) => Timestamp(StartDate(backend[j])) > Timestamp(Val(f.after))}}

\* C40: in the /activities endpoint, for every filtered result of size total
\* and every per_page: total_pages is the ceiling of total/per_page, each
\* page holds at most per_page items, the pages 1..total_pages one after the
\* other are the full filtered list with no item missing or repeated, a page
\* beyond total_pages is empty, and page and per_page do not change which
\* activities are fetched upstream.
C40_PagesOfFilteredList ==
    RouteResponded =>
        LET resp == outcome.data[1]
            full == loc.activities
            f == Val(args.filter)
        IN  /\ resp.total = Len(full)
            /\ resp.total_pages = CeilDiv(resp.total, resp.per_page)
            /\ \A p \in 1..(resp.total_pages + 2) :
                  /\ Len(Paginate(full, p, resp.per_page)) <= resp.per_page
                  /\ p > resp.total_pages => Paginate(full, p, resp.per_page) = <<>>
                  /\ p <= resp.total_pages => Paginate(full, p, resp.per_page) # <<>>
            /\ PagesUpTo(full, resp.total_pages, resp.per_page) = full
            /\ resp.items = Paginate(full, f.page, f.per_page)
            /\ f.page > resp.total_pages => resp.items = <<>>
            /\ \A i \in 1..Len(pageReqs) :
                  pageReqs[i].page = Some(i) /\ pageReqs[i].per_page = Some(MaxPerPage)
            /\ IdsOf(full) = Matching(f)
            /\ Cardinality(IdsOf(full)) = Len(full)

\* page 2 of three gearless activities by two: one item, two pages
C40_Witness ==
    /\ RouteResponded
    /\ outcome.data[1].total = 3
    /\ outcome.data[1].per_page = 2 /\ outcome.data[1].page = 2
    /\ outcome.data[1].total_pages = 2
    /\ Len(outcome.data[1].items) = 1

\* page 3 of 250 activities by 100, fetched upstream in two pages of 200
C40_BigWitness ==
    /\ RouteResponded
    /\ outcome.data[1].total = MaxPerPage + 50
    /\ outcome.data[1].per_page = MaxPerPage \div 2 /\ outcome.data[1].page = 3
    /\ outcome.data[1].total_pages = 3
    /\ Len(outcome.data[1].items) = 50
    /\ Len(pageReqs) = 2

\* a page beyond the last
C40_BeyondWitness ==
    /\ RouteResponded
    /\ outcome.data[1].total > 0
    /\ outcome.data[1].page > outcome.data[1].total_pages
    /\ outcome.data[1].items = <<>>
====
